---------------------------- MODULE Spec2Model ----------------------------
(***************************************************************************)
(* A model of the Memory Engine (memory-engine.js v2.0): the SQLite tables *)
(* memories / memory_tags / memory_links / memories_fts, the embedding     *)
(* cache, and the engine's public operations.                              *)
(*                                                                         *)
(* Conventions                                                             *)
(*  - A lower-case operator named like a method of MemoryEngine is that    *)
(*    method as a function from the engine state e (and the call's inputs) *)
(*    to [e |-> the state it leaves, res |-> what it returns or throws].   *)
(*    A capitalised action applies it to the variables.                    *)
(*  - A text is a sequence of tokens (Word, SP, PB, DOT); its length in    *)
(*    characters is the sum of the tokens' lengths.                        *)
(*  - A timestamp is a number of ticks; TicksPerDay ticks make one day.    *)
(***************************************************************************)
EXTENDS Integers, Sequences, FiniteSets, TLC

VARIABLES
    mem,          \* table memories: id -> row
    tags,         \* table memory_tags: set of <<memory_id, tag>>
    links,        \* table memory_links: set of [source_id, target_id, relation, strength]
    fts,          \* virtual table memories_fts: rowid -> [content, summary]
    conversations,    \* table conversations: the rows in the order of their insertion
    cache,        \* this.embeddingCache: the cached texts, oldest insertion first
    uuid,         \* number of crypto.randomUUID() values drawn so far
    open,         \* this.db.open: whether the database connection is open
    embeddingFn,  \* whether options.embeddingFn was given
    hasFTS,       \* this.hasFTS
    onFactsExtracted, \* whether options.onFactsExtracted was given
    strictTx,     \* whether db.transaction refuses a function that returns a promise
    embeddingCacheMaxSize, \* this.embeddingCacheMaxSize
    pending,      \* the calls of add and update that are suspended at an await
    now,          \* the wall clock, in ticks
    last          \* the last call and what it returned

vars == <<mem, tags, links, fts, conversations, cache, uuid, open, embeddingFn,
          hasFTS, onFactsExtracted, strictTx, embeddingCacheMaxSize, pending,
          now, last>>

-----------------------------------------------------------------------------
(* Bounds of the model *)

MaxRecords == 3
MaxTime == 2
TicksPerDay == 2
MaxAccess == 3
MaxUuid == 3
MinCacheSize == 1
MaxCacheSize == 2
MaxPending == 2

-----------------------------------------------------------------------------
(* Program constants *)

MAX_CHUNK_LENGTH == 1500
CHUNK_OVERLAP == 200
DECAY_HALF_LIFE_DAYS == 30
DedupScanLimit == 100
ProfileDynamicLimit == 30
ProfileSearchLimit == 10
CleanupMinAccess == 3

IMPORTANCE_WEIGHTS == [critical |-> 4, high |-> 3, normal |-> 2, low |-> 1]
Importances == DOMAIN IMPORTANCE_WEIGHTS
MemoryTypes == {"static", "dynamic", "episodic", "semantic"}

-----------------------------------------------------------------------------
(* Generic helpers *)

Max(a, b) == IF a >= b THEN a ELSE b
Min(a, b) == IF a <= b THEN a ELSE b
Range(s) == {s[i] : i \in 1..Len(s)}

RECURSIVE SumLen(_)
SumLen(s) == IF s = <<>> THEN 0 ELSE Head(s).n + SumLen(Tail(s))

\* k1 before k2 in the lexicographic order of integer tuples of equal length
RECURSIVE LexLeq(_, _)
LexLeq(k1, k2) ==
    IF k1 = <<>> THEN TRUE
    ELSE IF Head(k1) # Head(k2) THEN Head(k1) < Head(k2)
    ELSE LexLeq(Tail(k1), Tail(k2))

\* The elements of the finite set S as a sequence in ascending order of
\* key[x], a tuple of integers.
RECURSIVE SortBy(_, _)
SortBy(S, key) ==
    IF S = {} THEN <<>>
    ELSE LET m == CHOOSE x \in S : \A y \in S : LexLeq(key[x], key[y])
         IN <<m>> \o SortBy(S \ {m}, key)

Take(s, n) == SubSeq(s, 1, Min(n, Len(s)))

\* the elements of a finite set in some order
SetToSeq(S) == SortBy(S, [x \in S |-> <<0>>])

-----------------------------------------------------------------------------
(* Texts *)

Word(s) == [k |-> "w", s |-> s, n |-> Len(s)]
\* a word of n characters that starts with s
Long(s, n) == [k |-> "w", s |-> s, n |-> n]
SP == [k |-> "s", s |-> " ", n |-> 1]
PB == [k |-> "p", s |-> "\n\n", n |-> 2]
DOT == [k |-> "d", s |-> ".", n |-> 1]

Length(text) == SumLen(text)
IsSpace(tok) == tok.k \in {"s", "p"}

IsPrefix(p, w) == Len(p) <= Len(w) /\ SubSeq(w, 1, Len(p)) = p
IsSubstr(q, w) ==
    \E i \in 1..(Len(w) - Len(q) + 1) : SubSeq(w, i, i + Len(q) - 1) = q

\* the words of a text, as the unicode61 tokenizer and a lower-cased
\* substring test see them
WordsOf(text) == {text[i].s : i \in {j \in 1..Len(text) : text[j].k = "w"}}


\* String.prototype.split on a separator regex: the pieces between maximal
\* runs of tokens whose kind is in K (an empty piece before a leading run
\* and after a trailing one, as in JavaScript)
Split(text, K) ==
    LET n == Len(text)
        sep(i) == text[i].k \in K
        runStarts == {i \in 1..n : sep(i) /\ (i = 1 \/ ~sep(i - 1))}
        runEnds == {i \in 1..n : sep(i) /\ (i = n \/ ~sep(i + 1))}
        starts == {1} \cup {i + 1 : i \in runEnds}
        kth(k) == CHOOSE p \in starts : Cardinality({q \in starts : q < p}) = k - 1
        end(p) == IF \E r \in runStarts : r >= p
                  THEN (CHOOSE r \in runStarts :
                            r >= p /\ \A r2 \in runStarts : r2 >= p => r <= r2) - 1
                  ELSE n
    IN [k \in 1..Cardinality(starts) |-> SubSeq(text, kth(k), end(kth(k)))]

RECURSIVE TrimLeft(_)
TrimLeft(text) ==
    IF text # <<>> /\ IsSpace(Head(text)) THEN TrimLeft(Tail(text)) ELSE text

RECURSIVE TrimRight(_)
TrimRight(text) ==
    IF text # <<>> /\ IsSpace(text[Len(text)])
    THEN TrimRight(SubSeq(text, 1, Len(text) - 1))
    ELSE text

\* String.prototype.trim
Trim(text) == TrimRight(TrimLeft(text))

\* Array.prototype.join(' ')
RECURSIVE JoinSP(_)
JoinSP(pieces) ==
    IF pieces = <<>> THEN <<>>
    ELSE IF Len(pieces) = 1 THEN pieces[1]
    ELSE pieces[1] \o <<SP>> \o JoinSP(Tail(pieces))

\* Array.prototype.slice(-n)
LastN(s, n) == SubSeq(s, Max(1, Len(s) - n + 1), Len(s))

\* chunk.match(/[^.!?]+[.!?]+/g): each maximal run of non-terminators that
\* is followed by terminators, with them; text after the last terminator
\* matches nothing, nor do terminators at the very start
RECURSIVE SentAcc(_, _, _, _)
SentAcc(text, cur, dots, out) ==
    IF text = <<>> THEN (IF dots THEN Append(out, cur) ELSE out)
    ELSE IF Head(text).k = "d"
         THEN IF cur = <<>>
              THEN SentAcc(Tail(text), <<>>, FALSE, out)
              ELSE SentAcc(Tail(text), Append(cur, Head(text)), TRUE, out)
         ELSE IF dots
              THEN SentAcc(Tail(text), <<Head(text)>>, FALSE, Append(out, cur))
              ELSE SentAcc(Tail(text), Append(cur, Head(text)), FALSE, out)

Sentences(chunk) ==
    LET m == SentAcc(chunk, <<>>, FALSE, <<>>)
    IN IF m = <<>> THEN <<chunk>> ELSE m

-----------------------------------------------------------------------------
(* _chunkText *)

OverlapWords == CHUNK_OVERLAP \div 5

\* the loop over paragraphs: [current, chunks] after the last paragraph
RECURSIVE ParagraphLoop(_, _, _)
ParagraphLoop(paragraphs, current, chunks) ==
    IF paragraphs = <<>> THEN [current |-> current, chunks |-> chunks]
    ELSE LET para == Head(paragraphs) IN
         IF /\ Length(current \o <<PB>> \o para) > MAX_CHUNK_LENGTH
            /\ Length(current) > 0
         THEN LET words == Split(current, {"s", "p"})
                  overlapWords == LastN(words, OverlapWords)
              IN ParagraphLoop(Tail(paragraphs),
                               JoinSP(overlapWords) \o <<PB>> \o para,
                               Append(chunks, Trim(current)))
         ELSE ParagraphLoop(Tail(paragraphs),
                            IF current # <<>> THEN current \o <<PB>> \o para
                                              ELSE para,
                            chunks)

\* the loop over the sentences of one over-long chunk: [buf, final]
RECURSIVE SentenceLoop(_, _, _)
SentenceLoop(sentences, buf, final) ==
    IF sentences = <<>> THEN [buf |-> buf, final |-> final]
    ELSE LET sent == Head(sentences) IN
         IF Length(buf \o sent) > MAX_CHUNK_LENGTH /\ buf # <<>>
         THEN SentenceLoop(Tail(sentences), sent, Append(final, Trim(buf)))
         ELSE SentenceLoop(Tail(sentences), buf \o sent, final)

RECURSIVE SplitLongChunks(_, _)
SplitLongChunks(chunks, final) ==
    IF chunks = <<>> THEN final
    ELSE LET chunk == Head(chunks) IN
         IF Length(chunk) > MAX_CHUNK_LENGTH * 2
         THEN LET Flush(r) == IF Trim(r.buf) # <<>>
                              THEN Append(r.final, Trim(r.buf))
                              ELSE r.final
              IN SplitLongChunks(Tail(chunks),
                                 Flush(SentenceLoop(Sentences(chunk), <<>>, final)))
         ELSE SplitLongChunks(Tail(chunks), Append(final, chunk))

chunkText(text) ==
    LET Flush(p) == IF Trim(p.current) # <<>>
                    THEN Append(p.chunks, Trim(p.current))
                    ELSE p.chunks
        Result(final) == IF Len(final) > 0 THEN final ELSE <<text>>
    IN Result(SplitLongChunks(
                  Flush(ParagraphLoop(Split(text, {"p"}), <<>>, <<>>)), <<>>))

-----------------------------------------------------------------------------
(* The embedding function and the embedding cache *)

\* options.embeddingFn, an external provider: here a bag-of-words embedding
\* in two dimensions, a fixed vector per known word and the zero vector for
\* a text without known words.
WordVec(w) ==
    CASE w = "alex" -> <<4, 0>>
      [] w = "london" -> <<0, 1>>
      [] w = "sushi" -> <<0, 3>>
      [] w = "lorem" -> <<2, 2>>
      [] w = "ipsum" -> <<2, -2>>
      [] OTHER -> <<0, 0>>

RECURSIVE Embed(_)
Embed(text) ==
    IF text = <<>> THEN <<0, 0>>
    ELSE LET r == Embed(Tail(text))
             v == IF Head(text).k = "w" THEN WordVec(Head(text).s) ELSE <<0, 0>>
         IN <<v[1] + r[1], v[2] + r[2]>>

NoVec == <<>>    \* a NULL embedding column

\* the largest r in lo..hi with r * r <= n
RECURSIVE ISqrtIn(_, _, _)
ISqrtIn(n, lo, hi) ==
    IF lo >= hi THEN lo
    ELSE LET mid == (lo + hi + 1) \div 2
         IN IF mid * mid <= n THEN ISqrtIn(n, mid, hi) ELSE ISqrtIn(n, lo, mid - 1)

RECURSIVE Dot(_, _)
Dot(a, b) == IF a = <<>> THEN 0 ELSE Head(a) * Head(b) + Dot(Tail(a), Tail(b))

\* _cosineSimilarity, in thousandths (rounded towards zero)
cosineSimilarity(a, b) ==
    IF a = NoVec \/ b = NoVec \/ Len(a) # Len(b) THEN 0
    ELSE LET dot == Dot(a, b)
             normA == Dot(a, a)
             normB == Dot(b, b)
         IN IF normA * normB = 0 THEN 0
            ELSE LET q == ISqrtIn((1000000 * dot * dot) \div (normA * normB), 0, 1000)
                 IN IF dot >= 0 THEN q ELSE -q

SIMILARITY_MERGE_THRESHOLD == 850

\* a lookup that makes room in the cache before it asks the provider
getEmbeddingEvictingFirst(e, text, bad) ==
    LET kept == IF Len(e.cache) >= embeddingCacheMaxSize
                THEN Tail(e.cache) ELSE e.cache
    IN IF text \in Range(e.cache)
       THEN [ok |-> TRUE, vec |-> Embed(text), e |-> e]
       ELSE IF text \in bad
       THEN [ok |-> FALSE, vec |-> NoVec, e |-> [e EXCEPT !.cache = kept]]
       ELSE [ok |-> TRUE, vec |-> Embed(text),
             e |-> [e EXCEPT !.cache = Append(kept, text)]]

\* a cache that grows without end
cacheAppend(e, text) ==
    [e EXCEPT !.cache = IF text \in Range(@) THEN @ ELSE Append(@, text)]

\* _getEmbedding once the provider has returned the vector of text: the
\* oldest entry is deleted if the cache is full, then the Map is set (a key
\* that is there keeps its place)
cachePut(e, text) ==
    LET kept == IF Len(e.cache) >= embeddingCacheMaxSize
                THEN Tail(e.cache) ELSE e.cache
    IN [e EXCEPT !.cache = IF text \in Range(kept) THEN kept
                           ELSE Append(kept, text)]

\* a lookup whose hit makes the entry the newest of the cache
getEmbeddingMovingHit(e, text, bad) ==
    IF text \in Range(e.cache)
    THEN [ok |-> TRUE, vec |-> Embed(text),
          e |-> [e EXCEPT !.cache =
                    Append(SelectSeq(@, LAMBDA x : x # text), text)]]
    ELSE IF text \in bad
    THEN [ok |-> FALSE, vec |-> NoVec, e |-> e]
    ELSE [ok |-> TRUE, vec |-> Embed(text), e |-> cachePut(e, text)]

\* _getEmbedding: the vector of text, through the cache; the provider
\* throws on the texts in bad
getEmbedding(e, text, bad) ==
    IF text \in Range(e.cache)
    THEN [ok |-> TRUE, vec |-> Embed(text), e |-> e]
    ELSE IF text \in bad
    THEN [ok |-> FALSE, vec |-> NoVec, e |-> e]
    ELSE [ok |-> TRUE, vec |-> Embed(text), e |-> cachePut(e, text)]

-----------------------------------------------------------------------------
(* Rows and ids *)

NoId == <<>>                            \* customId not given
Uuid(n) == <<"u" \o ToString(n)>>       \* the n-th crypto.randomUUID()
ChunkId(parentId, i) == Append(parentId, i)   \* `${parentId}_chunk_${i}`
NullText == <<>>                        \* a NULL (or empty) summary
NoTime == 0 - 1                          \* a NULL last_accessed_at
NoMeta == <<>>                          \* metadata {}

\* {...a, ...b}
Spread(a, b) ==
    [k \in DOMAIN a \cup DOMAIN b |-> IF k \in DOMAIN b THEN b[k] ELSE a[k]]

Ids(e) == DOMAIN e.mem
TagsOf(e, id) == {p[2] : p \in {q \in e.tags : q[1] = id}}
\* a join that asks for a tag, whichever
HasSomeTag(e, id, tagSet) == TagsOf(e, id) # {}
\* the record id has one of the tags: JOIN memory_tags ... WHERE tag IN (...)
HasTagIn(e, id, tagSet) == TagsOf(e, id) \cap tagSet # {}

\* the rowid SQLite gives a new row of a table without INTEGER PRIMARY KEY
NextRowid(e) ==
    IF Ids(e) = {} THEN 1
    ELSE 1 + (CHOOSE r \in {e.mem[i].rowid : i \in Ids(e)} :
                  \A i \in Ids(e) : e.mem[i].rowid <= r)

Engine == [mem |-> mem, tags |-> tags, links |-> links, fts |-> fts,
           conversations |-> conversations, cache |-> cache, uuid |-> uuid]

\* ORDER BY updated_at DESC; rows with equal updated_at come in rowid order,
\* ascending (tb = 1) or descending (tb = -1): SQL leaves it open
ByUpdatedDesc(e, S, tb) ==
    SortBy(S, [i \in S |-> <<-e.mem[i].updated_at, tb * e.mem[i].rowid>>])

-----------------------------------------------------------------------------
(* add: deduplication, merge, insert, chunking *)

\* what add returns (ok) or the error it throws
AddResult(ok, error, id, merged, chunks) ==
    [ok |-> ok, error |-> error, id |-> id, merged |-> merged, chunks |-> chunks]

\* the statement and the loop of _findDuplicate: the first of the 100 most
\* recently updated rows that share a tag with the request whose embedding
\* is similar enough to queryEmbedding
scanForDuplicate(e, queryEmbedding, tagSeq, tb) ==
    LET Candidates(x) == {i \in Ids(x) : /\ HasTagIn(x, i, Range(tagSeq))
                                         /\ ~x.mem[i].is_deleted
                                         /\ x.mem[i].embedding # NoVec}
        Hits(rows) == {k \in 1..Len(rows) :
                          cosineSimilarity(queryEmbedding, e.mem[rows[k]].embedding)
                              >= SIMILARITY_MERGE_THRESHOLD}
        First(rows, hits) ==
            IF hits = {} THEN [found |-> FALSE, id |-> NoId]
            ELSE [found |-> TRUE,
                  id |-> rows[CHOOSE k \in hits : \A k2 \in hits : k <= k2]]
        Scan(rows) == First(rows, Hits(rows))
    IN Scan(Take(ByUpdatedDesc(e, Candidates(e), tb), DedupScanLimit))

\* _findDuplicate: the embedding of the content, then the scan
findDuplicate(e, content, tagSeq, bad, tb) ==
    LET Scanned(g, d) == [ok |-> TRUE, found |-> d.found, id |-> d.id, e |-> g.e]
        Given(g) ==
            IF ~g.ok THEN [ok |-> FALSE, found |-> FALSE, id |-> NoId, e |-> g.e]
            ELSE Scanned(g, scanForDuplicate(g.e, g.vec, tagSeq, tb))
    IN Given(getEmbedding(e, content, bad))

\* a merge that writes the requested importance, higher or not
RequestedImportance(importance, existingImportance) == importance

\* the importance _mergeMemory writes
MergedImportance(importance, existingImportance) ==
    LET w(x) == IF x \in Importances THEN IMPORTANCE_WEIGHTS[x] ELSE 2
    IN IF w(importance) > w(existingImportance) THEN importance ELSE existingImportance

\* a merge that keeps the content of the request, longer or not
RequestedContent(existingContent, content) == content

\* the content _mergeMemory writes
MergedContent(existingContent, content) ==
    IF Length(existingContent) >= Length(content) THEN existingContent ELSE content

\* _mergeMemory(existing, ...): existing is the row as _findDuplicate read
\* it, id its id; the UPDATE writes to the row that has the id now, if any
mergeRow(e, id, existing, content, metadata, importance, t) ==
    LET merged == MergedContent(existing.content, content)
        mergedMeta == Spread(Spread(existing.metadata, metadata), [mergedAt |-> t])
        finalImportance == MergedImportance(importance, existing.importance)
        Written(row) == [row EXCEPT !.content = merged, !.summary = NullText,
                                    !.importance = finalImportance,
                                    !.metadata = mergedMeta,
                                    !.embedding = existing.embedding,
                                    !.updated_at = t]
        Update(row) ==
            [e |-> [e EXCEPT !.mem[id] = Written(row),
                             !.fts = IF hasFTS /\ row.rowid \in DOMAIN e.fts
                                     THEN [e.fts EXCEPT ![row.rowid].content = merged]
                                     ELSE e.fts],
             res |-> AddResult(TRUE, "", id, TRUE, 0)]
    IN IF id \notin Ids(e)
       THEN [e |-> e, res |-> AddResult(TRUE, "", id, TRUE, 0)]
       ELSE IF finalImportance \notin Importances
       THEN [e |-> e, res |-> AddResult(FALSE, "CHECK constraint failed", NoId, FALSE, 0)]
       ELSE Update(e.mem[id])

\* _mergeMemory, called with the row of the id existing as it is stored
mergeMemory(e, existing, content, metadata, importance, t) ==
    mergeRow(e, existing, e.mem[existing], content, metadata, importance, t)

\* the transaction addOne of add: the row, its tags and its index entry
InsertMemory(e, id, req, embedding, t) ==
    LET rowid == NextRowid(e)
        row == [rowid |-> rowid, content |-> req.content, summary |-> req.summary,
                memory_type |-> req.memoryType, importance |-> req.importance,
                source |-> req.source, metadata |-> req.metadata,
                embedding |-> embedding, access_count |-> 0,
                last_accessed_at |-> NoTime, is_deleted |-> FALSE,
                created_at |-> t, updated_at |-> t]
    IN IF id \in Ids(e)
       THEN [e |-> e, res |-> AddResult(FALSE, "UNIQUE constraint failed", NoId, FALSE, 0)]
       ELSE IF req.memoryType \notin MemoryTypes \/ req.importance \notin Importances
       THEN [e |-> e, res |-> AddResult(FALSE, "CHECK constraint failed", NoId, FALSE, 0)]
       ELSE [e |-> [e EXCEPT
                      !.mem = [i \in Ids(e) \cup {id} |->
                                   IF i = id THEN row ELSE e.mem[i]],
                      !.tags = @ \cup {<<id, req.containerTags[k]>> :
                                           k \in 1..Len(req.containerTags)},
                      !.fts = IF hasFTS /\ rowid \notin DOMAIN e.fts
                              THEN [r \in DOMAIN e.fts \cup {rowid} |->
                                       IF r = rowid
                                       THEN [content |-> req.content,
                                             summary |-> req.summary]
                                       ELSE e.fts[r]]
                              ELSE e.fts],
             res |-> AddResult(TRUE, "", id, FALSE, 0)]

\* add for a content that is not chunked (autoChunk off or content short)
addPlain(e, req, bad, tb, t) ==
    LET fresh == req.customId = NoId
        Store(id, g) ==
            IF ~g.ok
            THEN [e |-> g.e,
                  res |-> AddResult(FALSE, "embedding failed", NoId, FALSE, 0)]
            ELSE InsertMemory(g.e, id, req, g.vec, t)
        Create(id, e1) ==
            Store(id, IF embeddingFn THEN getEmbedding(e1, req.content, bad)
                      ELSE [ok |-> TRUE, vec |-> NoVec, e |-> e1])
        Given(d) ==
            IF ~d.ok
            THEN [e |-> d.e, res |-> AddResult(FALSE, "embedding failed", NoId, FALSE, 0)]
            ELSE IF d.found
            THEN mergeMemory(d.e, d.id, req.content, req.metadata, req.importance, t)
            ELSE Create(IF fresh THEN Uuid(d.e.uuid + 1) ELSE req.customId,
                        IF fresh THEN [d.e EXCEPT !.uuid = @ + 1] ELSE d.e)
    IN Given(IF req.deduplicate /\ embeddingFn
             THEN findDuplicate(e, req.content, req.containerTags, bad, tb)
             ELSE [ok |-> TRUE, found |-> FALSE, id |-> NoId, e |-> e])

\* a plain INSERT that keeps the edge the pair already has
appendLink(e, sourceId, targetId, relation, strength) ==
    IF sourceId \notin Ids(e) \/ targetId \notin Ids(e)
    THEN [ok |-> FALSE, e |-> e]
    ELSE [ok |-> TRUE,
          e |-> [e EXCEPT !.links =
                    @ \cup {[source_id |-> sourceId, target_id |-> targetId,
                             relation |-> relation, strength |-> strength]}]]

\* INSERT OR REPLACE INTO memory_links, under foreign_keys = ON
insertLink(e, sourceId, targetId, relation, strength) ==
    IF sourceId \notin Ids(e) \/ targetId \notin Ids(e)
    THEN [ok |-> FALSE, e |-> e]
    ELSE [ok |-> TRUE,
          e |-> [e EXCEPT !.links =
                    {l \in @ : ~(l.source_id = sourceId /\ l.target_id = targetId)}
                    \cup {[source_id |-> sourceId, target_id |-> targetId,
                           relation |-> relation, strength |-> strength]}]]

\* the request _addChunked makes of add for chunk i
ChunkRequest(req, chunks, parentId, i) ==
    [req EXCEPT
       !.content = chunks[i + 1],
       !.customId = IF i = 0 THEN parentId ELSE ChunkId(parentId, i),
       !.metadata = Spread(req.metadata,
                           [chunkIndex |-> i, chunkTotal |-> Len(chunks),
                            parentId |-> parentId]),
       !.summary = IF i = 0 THEN req.summary ELSE NullText,
       !.autoChunk = FALSE]

\* the loop of _addChunked from chunk i on; on a throw, chunks counts the
\* chunks added before it
RECURSIVE ChunkLoop(_, _, _, _, _, _, _, _)
ChunkLoop(e, req, chunks, parentId, i, bad, tb, t) ==
    IF i >= Len(chunks)
    THEN [e |-> e, res |-> AddResult(TRUE, "", parentId, FALSE, Len(chunks))]
    ELSE LET Linked(l) ==
                 IF ~l.ok
                 THEN [e |-> l.e,
                       res |-> AddResult(FALSE, "FOREIGN KEY constraint failed",
                                          NoId, FALSE, i + 1)]
                 ELSE ChunkLoop(l.e, req, chunks, parentId, i + 1, bad, tb, t)
             Added(r) ==
                 IF ~r.res.ok THEN [e |-> r.e, res |-> [r.res EXCEPT !.chunks = i]]
                 ELSE Linked(IF i > 0
                             THEN insertLink(r.e, parentId, ChunkId(parentId, i),
                                             "chunk", 10)
                             ELSE [ok |-> TRUE, e |-> r.e])
         IN Added(addPlain(e, ChunkRequest(req, chunks, parentId, i), bad, tb, t))

\* _addChunked
addChunked(e, req, bad, tb, t) ==
    LET fresh == req.customId = NoId
    IN ChunkLoop(IF fresh THEN [e EXCEPT !.uuid = @ + 1] ELSE e, req,
                 chunkText(req.content),
                 IF fresh THEN Uuid(e.uuid + 1) ELSE req.customId, 0, bad, tb, t)

\* whether add hands the content to _addChunked
ChunkTrigger(req) ==
    req.autoChunk /\ 2 * Length(req.content) > 3 * MAX_CHUNK_LENGTH

add(e, req, bad, tb, t) ==
    IF ChunkTrigger(req) THEN addChunked(e, req, bad, tb, t)
    ELSE addPlain(e, req, bad, tb, t)

-----------------------------------------------------------------------------
(* search: lexical candidates, vector candidates, composite ranking *)

\* a candidate row of a search: the row as read, with its two raw scores
\* (ftsScore and vectorScore in thousandths)
Candidate(e, id, ftsScore, vectorScore) ==
    [id |-> id, row |-> e.mem[id], ftsScore |-> ftsScore, vectorScore |-> vectorScore]

\* the WHERE clause without the tag condition
InScopeOfAnyTag(e, id, tagSeq, includeDeleted, memoryTypes) ==
    /\ e.mem[id].is_deleted = includeDeleted
    /\ (memoryTypes # {} => e.mem[id].memory_type \in memoryTypes)

\* the WHERE clause without the memory_type condition
InScopeOfAnyType(e, id, tagSeq, includeDeleted, memoryTypes) ==
    /\ e.mem[id].is_deleted = includeDeleted
    /\ (Len(tagSeq) > 0 => HasTagIn(e, id, Range(tagSeq)))

\* WHERE m.is_deleted = ? [AND tag IN (...)] [AND memory_type IN (...)]
InScope(e, id, tagSeq, includeDeleted, memoryTypes) ==
    /\ e.mem[id].is_deleted = includeDeleted
    /\ (Len(tagSeq) > 0 => HasTagIn(e, id, Range(tagSeq)))
    /\ (memoryTypes # {} => e.mem[id].memory_type \in memoryTypes)

\* the terms of the MATCH expression _ftsSearch builds: "w"* for every
\* word of the query longer than one character
FtsTerms(query) == {w \in WordsOf(query) : Len(w) > 1}

\* whether an index entry matches the prefix term
FtsEntryMatches(entry, term) ==
    \E w \in WordsOf(entry.content) \cup WordsOf(entry.summary) : IsPrefix(term, w)

\* bm25's inverse document frequency of a term found in n of N entries, in
\* thousandths: ln((N - n + 0.5) / (n + 0.5)) by the first term of its
\* series, and (almost) zero when the term is in half the entries or more
IdfMilli(N, n) ==
    IF 2 * n >= N THEN 0 ELSE (2000 * (N - 2 * n)) \div (N + 1)

RECURSIVE SumOver(_, _)
SumOver(S, f) ==
    IF S = {} THEN 0
    ELSE LET x == CHOOSE y \in S : TRUE IN f[x] + SumOver(S \ {x}, f)

\* |memories_fts.rank| of an entry for the terms, in thousandths
FtsRank(e, rowid, terms) ==
    LET N == Cardinality(DOMAIN e.fts)
        hit == {tm \in terms : FtsEntryMatches(e.fts[rowid], tm)}
        n(tm) == Cardinality({r \in DOMAIN e.fts : FtsEntryMatches(e.fts[r], tm)})
    IN SumOver(hit, [tm \in hit |-> IdfMilli(N, n(tm))])

\* the least recently updated rows instead of the most recent ones
getOldest(e, tagSeq, limit, includeDeleted, memoryTypes, tb) ==
    LET S == {i \in Ids(e) : InScope(e, i, tagSeq, includeDeleted, memoryTypes)}
        Rows(rows) == [k \in 1..Len(rows) |-> Candidate(e, rows[k], 300, 0)]
    IN Rows(Take(SortBy(S, [i \in S |-> <<e.mem[i].updated_at, tb * e.mem[i].rowid>>]),
                 limit))

\* _getRecent
getRecent(e, tagSeq, limit, includeDeleted, memoryTypes, tb) ==
    LET S == {i \in Ids(e) : InScope(e, i, tagSeq, includeDeleted, memoryTypes)}
        Rows(rows) == [k \in 1..Len(rows) |-> Candidate(e, rows[k], 300, 0)]
    IN Rows(Take(ByUpdatedDesc(e, S, tb), limit))

\* _keywordSearch
keywordSearch(e, query, tagSeq, limit, includeDeleted, memoryTypes, tb) ==
    LET like(i, w) == \E cw \in WordsOf(e.mem[i].content) : IsSubstr(w, cw)
        Matching(words) ==
            {i \in Ids(e) : /\ InScope(e, i, tagSeq, includeDeleted, memoryTypes)
                            /\ \E w \in words : like(i, w)}
        matchCount(i, words) == Cardinality({w \in words : like(i, w)})
        Rows(words, rows) ==
            [k \in 1..Len(rows) |->
                Candidate(e, rows[k],
                          (1000 * matchCount(rows[k], words)) \div Cardinality(words),
                          0)]
        Given(words) ==
            IF words = {}
            THEN getRecent(e, tagSeq, limit, includeDeleted, memoryTypes, tb)
            ELSE Rows(words, Take(ByUpdatedDesc(e, Matching(words), tb), limit))
    IN Given({w \in WordsOf(query) : Len(w) > 2})

\* _ftsSearch
ftsSearch(e, query, tagSeq, limit, includeDeleted, memoryTypes, tb) ==
    LET Matching(terms) ==
            {i \in Ids(e) :
                /\ e.mem[i].rowid \in DOMAIN e.fts
                /\ \E tm \in terms : FtsEntryMatches(e.fts[e.mem[i].rowid], tm)
                /\ InScope(e, i, tagSeq, includeDeleted, memoryTypes)}
        Rows(rank, rows) ==
            [k \in 1..Len(rows) |-> Candidate(e, rows[k], rank[rows[k]], 0)]
        Ranked(S, rank) ==
            Rows(rank,
                 Take(SortBy(S, [i \in S |-> <<-rank[i], tb * e.mem[i].rowid>>]),
                      limit))
        Scored(S, terms) == Ranked(S, [i \in S |-> FtsRank(e, e.mem[i].rowid, terms)])
        Given(terms) ==
            IF hasFTS /\ Trim(query) # <<>> /\ terms # {}
            THEN Scored(Matching(terms), terms)
            ELSE keywordSearch(e, query, tagSeq, limit, includeDeleted, memoryTypes, tb)
    IN Given(FtsTerms(query))

\* _vectorSearch, given the embedding of the query
vectorSearch(e, queryEmbedding, tagSeq, limit, includeDeleted, memoryTypes, tb) ==
    LET S == {i \in Ids(e) : /\ InScope(e, i, tagSeq, includeDeleted, memoryTypes)
                             /\ e.mem[i].embedding # NoVec}
        Rows(sim, rows) ==
            [k \in 1..Len(rows) |-> Candidate(e, rows[k], 0, sim[rows[k]])]
        Ranked(T, sim) ==
            Rows(sim,
                 Take(SortBy(T, [i \in T |-> <<-sim[i], tb * e.mem[i].rowid>>]),
                      limit))
        Scored(T) ==
            Ranked(T, [i \in T |->
                          cosineSimilarity(queryEmbedding, e.mem[i].embedding)])
    IN Scored(S)

\* log2(n) in thousandths, n >= 1
RECURSIVE Log2Milli(_)
Log2Milli(n) ==
    CASE n <= 1 -> 0
      [] n = 3 -> 1585
      [] n = 5 -> 2322
      [] n = 7 -> 2807
      [] OTHER -> 1000 + Log2Milli(n \div 2)

\* 0.5 ^ (age / DECAY_HALF_LIFE_DAYS) in ten-thousandths, the age in ticks
RECURSIVE Decay(_)
Decay(ageTicks) ==
    LET x == (6931 \div DECAY_HALF_LIFE_DAYS) \div TicksPerDay
        perTick == 10000 - x + (x * x) \div 20000
    IN IF ageTicks <= 0 THEN 10000
       ELSE (Decay(ageTicks - 1) * perTick) \div 10000

ImportanceWeight(importance) ==
    IF importance \in Importances THEN IMPORTANCE_WEIGHTS[importance] ELSE 2

\* _mergeAndRank without the minimum-importance filter
PassesAnyImportance(importance, minImportance) == TRUE

\* whether _mergeAndRank keeps a candidate of this importance
PassesMinImportance(importance, minImportance) ==
    ~(/\ minImportance # "none"
      /\ ImportanceWeight(importance) <
            (IF minImportance \in Importances
             THEN IMPORTANCE_WEIGHTS[minImportance] ELSE 0))

\* finalScore of a candidate, in millionths
FinalScore(c, t) ==
    LET recency == IF c.row.memory_type = "static" THEN 10000
                   ELSE Decay(t - c.row.updated_at)
        ftsNorm == Min(c.ftsScore \div 5, 1000)
    IN c.vectorScore * 400
       + ftsNorm * 250
       + recency * 15
       + ImportanceWeight(c.row.importance) * 30000
       + Log2Milli(c.row.access_count + 1) * 4

\* _mergeAndRank: the candidates by id (lexical ones first), filtered by
\* minimum importance, scored, and sorted by score (a stable sort)
mergeAndRank(e, ftsResults, vectorResults, minImportance, t) ==
    LET ftsIds == {ftsResults[k].id : k \in 1..Len(ftsResults)}
        vecOf(id) == IF \E k \in 1..Len(vectorResults) : vectorResults[k].id = id
                     THEN (CHOOSE k \in 1..Len(vectorResults) :
                               vectorResults[k].id = id)
                     ELSE 0
        fromFts == [k \in 1..Len(ftsResults) |->
                       [ftsResults[k] EXCEPT !.vectorScore =
                           IF vecOf(ftsResults[k].id) = 0 THEN 0
                           ELSE vectorResults[vecOf(ftsResults[k].id)].vectorScore]]
        InOrder(vecOnly) == SortBy(vecOnly, [k \in vecOnly |-> <<k>>])
        FromVec(fromVec) == [j \in 1..Len(fromVec) |-> vectorResults[fromVec[j]]]
        Ranked(byId, order) ==
            [j \in 1..Len(order) |->
                [id |-> byId[order[j]].id,
                 row |-> byId[order[j]].row,
                 tags |-> TagsOf(e, byId[order[j]].id),
                 finalScore |-> FinalScore(byId[order[j]], t)]]
        Sorted(byId, kept) ==
            Ranked(byId,
                   SortBy(kept, [k \in kept |-> <<-FinalScore(byId[k], t), k>>]))
        Merged(byId) ==
            Sorted(byId, {k \in 1..Len(byId) :
                             PassesMinImportance(byId[k].row.importance,
                                                 minImportance)})
    IN Merged(fromFts \o FromVec(InOrder({k \in 1..Len(vectorResults) :
                                             vectorResults[k].id \notin ftsIds})))

\* a bump of every row, returned or not
BumpEveryRow(e, ids, t) ==
    [e EXCEPT !.mem = [i \in Ids(e) |->
        [e.mem[i] EXCEPT !.access_count = @ + 1, !.last_accessed_at = t]]]

\* bumpMany: access_count + 1 and last_accessed_at for every returned row
BumpAccess(e, ids, t) ==
    [e EXCEPT !.mem = [i \in Ids(e) |->
        IF i \in ids
        THEN [e.mem[i] EXCEPT !.access_count = @ + 1, !.last_accessed_at = t]
        ELSE e.mem[i]]]

\* search; a request is [q, containerTags, limit, memoryTypes, minImportance,
\* includeDeleted]
search(e, req, bad, tb, t) ==
    LET ftsResults == ftsSearch(e, req.q, req.containerTags, req.limit * 2,
                                req.includeDeleted, req.memoryTypes, tb)
        vectorResults(g) == IF embeddingFn
                            THEN vectorSearch(g.e, g.vec, req.containerTags,
                                              req.limit * 2, req.includeDeleted,
                                              req.memoryTypes, tb)
                            ELSE <<>>
        scored(g) ==
            mergeAndRank(g.e, ftsResults, vectorResults(g), req.minImportance, t)
        Return(g, topResults) ==
            [e |-> BumpAccess(g.e, {topResults[k].id : k \in 1..Len(topResults)}, t),
             res |-> [ok |-> TRUE, results |-> topResults]]
        Given(g) ==
            IF ~g.ok THEN [e |-> g.e, res |-> [ok |-> FALSE, results |-> <<>>,
                                               error |-> "embedding failed"]]
            ELSE Return(g, Take(scored(g), req.limit))
    IN Given(IF embeddingFn THEN getEmbedding(e, req.q, bad)
             ELSE [ok |-> TRUE, vec |-> NoVec, e |-> e])

-----------------------------------------------------------------------------
(* Timestamps as SQLite and JavaScript write them *)

Day(t) == t \div TicksPerDay
TimeOfDay(t) == t % TicksPerDay

\* CURRENT_TIMESTAMP: 'YYYY-MM-DD HH:MM:SS'
SqlTimestamp(t) == [date |-> Day(t), sep |-> " ", time |-> TimeOfDay(t)]
\* Date.prototype.toISOString: 'YYYY-MM-DDTHH:MM:SS.sssZ'
IsoString(t) == [date |-> Day(t), sep |-> "T", time |-> TimeOfDay(t)]

CharCode(c) == IF c = " " THEN 32 ELSE 84

\* a < b for two TEXT values, as SQLite compares them (byte by byte)
TextLess(a, b) ==
    \/ a.date < b.date
    \/ a.date = b.date /\ CharCode(a.sep) < CharCode(b.sep)
    \/ a.date = b.date /\ a.sep = b.sep /\ a.time < b.time

-----------------------------------------------------------------------------
(* delete, restore, update *)

SoftDelete(e, idSet, t) ==
    [e EXCEPT !.mem = [i \in Ids(e) |->
        IF i \in idSet THEN [e.mem[i] EXCEPT !.is_deleted = TRUE, !.updated_at = t]
        ELSE e.mem[i]]]

\* DELETE FROM memories without foreign keys: the rows of the other tables stay
DeleteRowsOnly(e, idSet) ==
    [e EXCEPT !.mem = [i \in Ids(e) \ idSet |-> e.mem[i]]]

\* DELETE FROM memories, with the cascade to memory_tags and memory_links
DeleteRows(e, idSet) ==
    [e EXCEPT !.mem = [i \in Ids(e) \ idSet |-> e.mem[i]],
              !.tags = {p \in @ : p[1] \notin idSet},
              !.links = {l \in @ : l.source_id \notin idSet /\ l.target_id \notin idSet}]

delete(e, id, hard, t) ==
    IF hard
    THEN LET e1 == IF hasFTS /\ id \in Ids(e)
                   THEN [e EXCEPT !.fts = [r \in DOMAIN e.fts \ {e.mem[id].rowid} |->
                                              e.fts[r]]]
                   ELSE e
         IN [e |-> DeleteRows(e1, {id}), res |-> [ok |-> TRUE, success |-> TRUE]]
    ELSE [e |-> SoftDelete(e, {id}, t), res |-> [ok |-> TRUE, success |-> TRUE]]

\* restore that only touches updated_at
restoreKeepingFlag(e, id, t) ==
    [e |-> [e EXCEPT !.mem = [i \in Ids(e) |->
                IF i = id THEN [e.mem[i] EXCEPT !.updated_at = t]
                ELSE e.mem[i]]],
     res |-> [ok |-> TRUE, success |-> TRUE]]

restore(e, id, t) ==
    [e |-> [e EXCEPT !.mem = [i \in Ids(e) |->
                IF i = id THEN [e.mem[i] EXCEPT !.is_deleted = FALSE, !.updated_at = t]
                ELSE e.mem[i]]],
     res |-> [ok |-> TRUE, success |-> TRUE]]

\* a lookup that finds soft-deleted rows too
getByIdOfAnyRow(e, id) == id \in Ids(e)

\* _stmts.getById finds a row: WHERE id = ? AND is_deleted = 0
getById(e, id) == id \in Ids(e) /\ ~e.mem[id].is_deleted

\* update from updateMemory.run on: existing is the row as getById read it,
\* embedding the vector written; the statements write to the row that has
\* the id now, if any. updates is [has, content, summary, importance,
\* metadata, containerTags], has naming the fields that are given
updateWrite(e, id, existing, updates, embedding, t) ==
    LET content == IF "content" \in updates.has THEN updates.content
                   ELSE existing.content
        summary == IF "summary" \in updates.has THEN updates.summary
                   ELSE existing.summary
        importance == IF "importance" \in updates.has THEN updates.importance
                      ELSE existing.importance
        meta == IF "metadata" \in updates.has
                THEN Spread(existing.metadata, updates.metadata)
                ELSE existing.metadata
        retag == "containerTags" \in updates.has
        Written(row) == [row EXCEPT !.content = content, !.summary = summary,
                                    !.importance = importance, !.metadata = meta,
                                    !.embedding = embedding, !.updated_at = t]
        Index(e2, row) == IF hasFTS /\ row.rowid \in DOMAIN e2.fts
                          THEN [e2 EXCEPT !.fts[row.rowid] =
                                              [content |-> content, summary |-> summary]]
                          ELSE e2
        Retag(e1) == IF retag
                     THEN [e1 EXCEPT !.tags = {p \in @ : p[1] # id}
                                         \cup {<<id, updates.containerTags[k]>> :
                                                  k \in 1..Len(updates.containerTags)}]
                     ELSE e1
    IN IF id \notin Ids(e)
       THEN IF retag /\ updates.containerTags # <<>>
            THEN [e |-> e, res |-> [ok |-> FALSE, success |-> FALSE,
                                    error |-> "FOREIGN KEY constraint failed"]]
            ELSE [e |-> e, res |-> [ok |-> TRUE, success |-> TRUE]]
       ELSE IF importance \notin Importances
       THEN [e |-> e, res |-> [ok |-> FALSE, success |-> FALSE,
                               error |-> "CHECK constraint failed"]]
       ELSE [e |-> Index(Retag([e EXCEPT !.mem[id] = Written(e.mem[id])]), e.mem[id]),
             res |-> [ok |-> TRUE, success |-> TRUE]]

\* whether update asks for a new embedding
Reembeds(updates) ==
    "content" \in updates.has /\ updates.content # <<>> /\ embeddingFn

update(e, id, updates, bad, t) ==
    IF ~getById(e, id)
    THEN [e |-> e, res |-> [ok |-> TRUE, success |-> FALSE]]
    ELSE
    LET Given(g) ==
            IF ~g.ok THEN [e |-> g.e, res |-> [ok |-> FALSE, success |-> FALSE,
                                               error |-> "embedding failed"]]
            ELSE updateWrite(g.e, id, e.mem[id], updates, g.vec, t)
    IN Given(IF Reembeds(updates) THEN getEmbedding(e, updates.content, bad)
             ELSE [ok |-> TRUE, vec |-> e.mem[id].embedding, e |-> e])

-----------------------------------------------------------------------------
(* getProfile, link, getRelated *)

\* an order by weight ascending: the least important first
RankOfWeight(importance) == ImportanceWeight(importance)

ImportanceRank(importance) ==
    CASE importance = "critical" -> 1
      [] importance = "high" -> 2
      [] importance = "normal" -> 3
      [] OTHER -> 4

\* the rows of memories JOIN memory_tags for the tags: one per matching
\* <<id, tag>> pair
TagJoin(e, tagSeq) == {p \in e.tags : p[2] \in Range(tagSeq) /\ p[1] \in Ids(e)}

\* the containerTag argument of getProfile: an array of tags, one tag, or
\* nothing (undefined or '')
TagArray(tagSeq) == [isArray |-> TRUE, tags |-> tagSeq]
OneTag(tag) == [isArray |-> FALSE, tags |-> <<tag>>]
NoTag == [isArray |-> FALSE, tags |-> <<>>]

getProfile(e, containerTag, queryText, bad, tb, t) ==
    LET tagSeq == IF containerTag.isArray THEN containerTag.tags
                  ELSE IF containerTag = NoTag THEN <<"default">>
                  ELSE containerTag.tags
        Static(J) == {p \in J : /\ e.mem[p[1]].memory_type = "static"
                                /\ ~e.mem[p[1]].is_deleted}
        Dynamic(J) == {p \in J : /\ e.mem[p[1]].memory_type \in {"dynamic", "episodic"}
                                 /\ ~e.mem[p[1]].is_deleted}
        staticRows(S) == SortBy(S, [p \in S |->
                             <<ImportanceRank(e.mem[p[1]].importance),
                               -e.mem[p[1]].updated_at, tb * e.mem[p[1]].rowid>>])
        dynamicRows(D) ==
            Take(SortBy(D, [p \in D |->
                               <<-e.mem[p[1]].updated_at, tb * e.mem[p[1]].rowid>>]),
                 ProfileDynamicLimit)
        IdsOf(rows) == [k \in 1..Len(rows) |-> rows[k][1]]
        Profile(sr, J) ==
            [e |-> sr.e,
             res |-> [ok |-> sr.res.ok,
                      static |-> IdsOf(staticRows(Static(J))),
                      dynamic |-> IdsOf(dynamicRows(Dynamic(J))),
                      results |-> sr.res.results]]
    IN Profile(IF queryText # <<>>
               THEN search(e, [q |-> queryText, containerTags |-> tagSeq,
                               limit |-> ProfileSearchLimit, memoryTypes |-> {},
                               minImportance |-> "none", includeDeleted |-> FALSE],
                           bad, tb, t)
               ELSE [e |-> e, res |-> [ok |-> TRUE, results |-> <<>>]],
               TagJoin(e, tagSeq))

link(e, sourceId, targetId, relation, strength) ==
    LET l == insertLink(e, sourceId, targetId, relation, strength)
    IN [e |-> l.e, res |-> [ok |-> l.ok, success |-> l.ok]]

\* getRelated; relation "none" is no filter
\* the targets of a record whatever the relation asked for
getRelatedOfAnyRelation(e, memoryId, relation, limit, tb) ==
    LET S == {l \in e.links : /\ l.source_id = memoryId
                              /\ ~e.mem[l.target_id].is_deleted}
        Targets(rows) == [k \in 1..Len(rows) |-> rows[k].target_id]
    IN Targets(Take(SortBy(S, [l \in S |->
                   <<-l.strength, tb * e.mem[l.target_id].rowid>>]), limit))

getRelated(e, memoryId, relation, limit, tb) ==
    LET S == {l \in e.links : /\ l.source_id = memoryId
                              /\ ~e.mem[l.target_id].is_deleted
                              /\ (relation # "none" => l.relation = relation)}
        Targets(rows) == [k \in 1..Len(rows) |-> rows[k].target_id]
    IN Targets(Take(SortBy(S, [l \in S |->
                   <<-l.strength, tb * e.mem[l.target_id].rowid>>]), limit))

-----------------------------------------------------------------------------
(* cleanup, vacuum, exportAll, addBulk, importBulk *)

RetentionDays == 7

\* the rows cleanup selects
StaleRows(e, maxAgeDays, t) ==
    LET cutoff == IsoString(t - maxAgeDays * TicksPerDay)
    IN {i \in Ids(e) : /\ e.mem[i].memory_type = "dynamic"
                       /\ ~e.mem[i].is_deleted
                       /\ TextLess(SqlTimestamp(e.mem[i].updated_at), cutoff)
                       /\ e.mem[i].importance \notin {"critical", "high"}
                       /\ e.mem[i].access_count < CleanupMinAccess}

\* cleanup without the early return of the dry run
cleanupIgnoringDryRun(e, maxAgeDays, dryRun, t) ==
    LET stale == StaleRows(e, maxAgeDays, t)
    IN [e |-> SoftDelete(e, stale, t),
        res |-> [ok |-> TRUE, count |-> Cardinality(stale), items |-> stale]]

cleanup(e, maxAgeDays, dryRun, t) ==
    LET stale == StaleRows(e, maxAgeDays, t)
    IN IF dryRun
       THEN [e |-> e, res |-> [ok |-> TRUE, count |-> Cardinality(stale), items |-> stale]]
       ELSE [e |-> SoftDelete(e, stale, t),
             res |-> [ok |-> TRUE, count |-> Cardinality(stale), items |-> stale]]

\* vacuum; renumber says whether VACUUM gives the remaining rows of
\* memories (a table without INTEGER PRIMARY KEY) new rowids 1..n
vacuum(e, renumber, t) ==
    LET cutoff == IsoString(t - RetentionDays * TicksPerDay)
        purge == {i \in Ids(e) : /\ e.mem[i].is_deleted
                                 /\ TextLess(SqlTimestamp(e.mem[i].updated_at), cutoff)}
        e1 == DeleteRows(e, purge)
        rank(i) == Cardinality({j \in Ids(e1) : e1.mem[j].rowid <= e1.mem[i].rowid})
    IN [e |-> IF renumber
              THEN [e1 EXCEPT !.mem = [i \in Ids(e1) |->
                                          [e1.mem[i] EXCEPT !.rowid = rank(i)]]]
              ELSE e1,
        res |-> [ok |-> TRUE, success |-> TRUE]]

\* a tag that contains the separator of GROUP_CONCAT
CommaTag == "t1,t2"

\* GROUP_CONCAT(mt.tag) and r.tags.split(','): the pieces between the commas
\* of the joined tags
splitTags(tagSet) ==
    UNION {IF tg = CommaTag THEN {"t1", "t2"} ELSE {tg} : tg \in tagSet}

\* exportAll; tagSeq <<>> is no tag list (or an empty one)
exportAll(e, tagSeq, tb) ==
    LET S == {i \in Ids(e) : /\ ~e.mem[i].is_deleted
                             /\ (Len(tagSeq) > 0 => HasTagIn(e, i, Range(tagSeq)))}
        Records(rows) ==
            [k \in 1..Len(rows) |->
                [id |-> rows[k], row |-> e.mem[rows[k]],
                 tags |-> splitTags(TagsOf(e, rows[k]))]]
    IN Records(SortBy(S, [i \in S |-> <<e.mem[i].created_at, tb * e.mem[i].rowid>>]))

\* the adds of a list of requests one after the other, up to the first
\* that throws: the state left, the number added, and whether all were
RECURSIVE AddLoop(_, _, _, _, _, _)
AddLoop(e, requests, n, bad, tb, t) ==
    IF requests = <<>> THEN [e |-> e, ok |-> TRUE, n |-> n]
    ELSE LET Added(r) ==
                 IF ~r.res.ok THEN [e |-> r.e, ok |-> FALSE, n |-> n]
                 ELSE AddLoop(r.e, Tail(requests), n + 1, bad, tb, t)
         IN Added(add(e, Head(requests), bad, tb, t))

\* addBulk. The function handed to db.transaction is async, so it returns
\* (a promise) at its first await and the transaction ends there; the rest
\* of the loop runs after it. Without an embedding function the first
\* insert happens before that await, inside the transaction. strict: the
\* better-sqlite3 build refuses a transaction function that returns a
\* promise (it rolls the transaction back and throws).
addBulk(e, memories, strict, bad, tb, t) ==
    LET m1 == memories[1]
        chunked == ChunkTrigger(m1)
        fresh == m1.customId = NoId
        parentId == IF fresh THEN Uuid(e.uuid + 1) ELSE m1.customId
        e1 == IF fresh THEN [e EXCEPT !.uuid = @ + 1] ELSE e
        Accepted(all) == [e |-> all.e, res |-> [ok |-> all.ok, n |-> all.n]]
        Refused(all) == [e |-> all.e, res |-> [ok |-> FALSE, n |-> all.n]]
        Continued(cont) ==
            IF ~cont.res.ok
            THEN [e |-> cont.e, res |-> [ok |-> FALSE, n |-> 0]]
            ELSE Refused(AddLoop(cont.e, Tail(memories), 1, bad, tb, t))
        RolledBack(first, rolled, chunks) ==
            IF ~first.res.ok
            THEN [e |-> rolled, res |-> [ok |-> FALSE, n |-> 0]]
            ELSE Continued(IF chunked
                           THEN ChunkLoop(rolled, m1, chunks, parentId, 1, bad, tb, t)
                           ELSE [e |-> rolled, res |-> first.res])
        First(first, chunks) ==
            RolledBack(first,
                       IF chunked THEN e1 ELSE [e EXCEPT !.uuid = first.e.uuid],
                       chunks)
        Strict(chunks) ==
            First(IF chunked
                  THEN addPlain(e1, ChunkRequest(m1, chunks, parentId, 0), bad, tb, t)
                  ELSE addPlain(e, m1, bad, tb, t),
                  chunks)
    IN IF memories = <<>> THEN [e |-> e, res |-> [ok |-> TRUE, n |-> 0]]
       ELSE IF ~strict THEN Accepted(AddLoop(e, memories, 0, bad, tb, t))
       ELSE IF embeddingFn THEN Refused(AddLoop(e, memories, 0, bad, tb, t))
       ELSE Strict(chunkText(m1.content))

\* the request importBulk makes of an exported record (an empty tag list
\* is a list: mem.tags || ['default'] keeps it)
ImportRequest(x) ==
    [content |-> x.row.content,
     containerTags |-> SetToSeq(x.tags),
     customId |-> x.id, metadata |-> x.row.metadata,
     memoryType |-> x.row.memory_type, importance |-> x.row.importance,
     source |-> x.row.source, summary |-> x.row.summary,
     autoChunk |-> TRUE, deduplicate |-> TRUE]

importBulk(e, exported, bad, tb, t) ==
    LET Imported(all) == [e |-> all.e, res |-> [ok |-> all.ok, n |-> all.n]]
    IN Imported(AddLoop(e, [k \in 1..Len(exported) |-> ImportRequest(exported[k])],
                        0, bad, tb, t))

\* getStats: the number of records that are not soft-deleted, in all and by
\* type, under the tags if any are given
getStats(e, tagSeq) ==
    LET counted == {i \in Ids(e) : /\ ~e.mem[i].is_deleted
                                   /\ (Len(tagSeq) > 0 =>
                                          HasTagIn(e, i, Range(tagSeq)))}
        types == {e.mem[i].memory_type : i \in counted}
    IN [ok |-> TRUE, total |-> Cardinality(counted),
        byType |-> [ty \in types |->
                       Cardinality({i \in counted : e.mem[i].memory_type = ty})]]

-----------------------------------------------------------------------------
(* addConversation *)

\* `conv:${conversationId}`
ConvId(conversationId) == <<"conv:" \o conversationId>>

\* 'User:' or 'Assistant:'
RoleLabel(role) == IF role = "user" THEN Long("user", 5) ELSE Long("assistant", 10)

RECURSIVE JoinPB(_)
JoinPB(pieces) ==
    IF pieces = <<>> THEN <<>>
    ELSE IF Len(pieces) = 1 THEN pieces[1]
    ELSE pieces[1] \o <<PB>> \o JoinPB(Tail(pieces))

\* the transcript: the user and assistant messages as 'User: ...' and
\* 'Assistant: ...', joined by blank lines
conversationText(messages) ==
    LET spoken(m) == m.role \in {"user", "assistant"}
        Lines(ms) == [k \in 1..Len(ms) |-> <<RoleLabel(ms[k].role), SP>> \o ms[k].content]
    IN JoinPB(Lines(SelectSeq(messages, spoken)))

NoFacts == <<>>     \* a NULL extracted_facts column

ConversationResult(ok, id, conversationId, extractedFacts) ==
    [ok |-> ok, id |-> id, conversationId |-> conversationId,
     extractedFacts |-> extractedFacts]

\* the add of the transcript
EpisodicRequest(req) ==
    [content |-> conversationText(req.messages), containerTags |-> req.containerTags,
     customId |-> ConvId(req.conversationId), metadata |-> NoMeta,
     memoryType |-> "episodic", importance |-> "normal", source |-> "conversation",
     summary |-> NullText, autoChunk |-> TRUE, deduplicate |-> FALSE]

\* the add of an extracted fact
FactRequest(fact, tagSeq) ==
    [content |-> fact.content, containerTags |-> tagSeq, customId |-> NoId,
     metadata |-> NoMeta, memoryType |-> fact.type, importance |-> fact.importance,
     source |-> "auto_extracted", summary |-> NullText, autoChunk |-> TRUE,
     deduplicate |-> TRUE]

\* addConversation; a request is [conversationId, messages, containerTags,
\* extractFacts], extracted is what the callback does: it throws, or it
\* returns facts
addConversation(e, req, extracted, bad, tb, t) ==
    LET id == Uuid(e.uuid + 1)
        row == [id |-> id, conversation_id |-> req.conversationId,
                messages |-> req.messages, container_tag |-> req.containerTags[1],
                extracted_facts |-> NoFacts]
        factRequests == [k \in 1..Len(extracted.facts) |->
                            FactRequest(extracted.facts[k], req.containerTags)]
        Return(e2, n) ==
            [e |-> e2, res |-> ConversationResult(TRUE, id, req.conversationId, n)]
        Stored(l) ==
            Return(IF l.ok
                   THEN [l.e EXCEPT !.conversations =
                            [k \in 1..Len(@) |->
                                IF @[k].id = id
                                THEN [@[k] EXCEPT !.extracted_facts = extracted.facts]
                                ELSE @[k]]]
                   ELSE l.e,
                   Len(extracted.facts))
        Extract(e2) ==
            IF ~(req.extractFacts /\ onFactsExtracted) THEN Return(e2, 0)
            ELSE IF extracted.throws THEN Return(e2, 0)
            ELSE Stored(AddLoop(e2, factRequests, 0, bad, tb, t))
        Saved(r) ==
            IF ~r.res.ok
            THEN [e |-> r.e,
                  res |-> ConversationResult(FALSE, NoId, req.conversationId, 0)]
            ELSE Extract(r.e)
        Inserted(e1) ==
            Saved(IF Trim(conversationText(req.messages)) # <<>>
                  THEN add(e1, EpisodicRequest(req), bad, tb, t)
                  ELSE [e |-> e1, res |-> [ok |-> TRUE]])
    IN Inserted([e EXCEPT !.uuid = @ + 1, !.conversations = Append(@, row)])

-----------------------------------------------------------------------------
(* The engine as a state machine: one action per public operation *)

\* a new engine on a new database; the fact extractor and the size of the
\* cache are the options the conjunct leaves to the specification
Constructed ==
    /\ pending = <<>>
    /\ mem = <<>>
    /\ tags = {}
    /\ links = {}
    /\ fts = <<>>
    /\ conversations = <<>>
    /\ cache = <<>>
    /\ uuid = 0
    /\ open = TRUE
    /\ embeddingFn \in BOOLEAN
    /\ hasFTS \in BOOLEAN
    /\ strictTx \in BOOLEAN
    /\ now = 0
    /\ last = [op |-> "new", req |-> <<>>, res |-> [ok |-> TRUE]]

\* a new engine without options.onFactsExtracted, with the smallest cache
Init ==
    Constructed /\ onFactsExtracted = FALSE /\ embeddingCacheMaxSize = MinCacheSize

\* how SQLite orders rows that tie under ORDER BY: by rowid, ascending or
\* descending
TieBreaks == {1, -1}
RowidOrder == {1}

\* the state r.e an operation leaves is within the bounds of the model
WithinBounds(e) ==
    /\ Cardinality(Ids(e)) <= MaxRecords
    /\ e.uuid <= MaxUuid
    /\ \A i \in Ids(e) : e.mem[i].access_count <= MaxAccess

\* the operation op, called with req, took the engine to r.e and returned r.res
Commit(op, req, r) ==
    \E done \in {r} :
        /\ WithinBounds(done.e)
        /\ mem' = done.e.mem
        /\ tags' = done.e.tags
        /\ links' = done.e.links
        /\ fts' = done.e.fts
        /\ conversations' = done.e.conversations
        /\ cache' = done.e.cache
        /\ uuid' = done.e.uuid
        /\ last' = [op |-> op, req |-> req, res |-> done.res]
        /\ UNCHANGED <<open, embeddingFn, hasFTS, onFactsExtracted, strictTx,
                       embeddingCacheMaxSize, pending, now>>

\* a statement on a closed connection that does nothing, without an error
Ignored(e) == [e |-> e, res |-> [ok |-> TRUE]]

\* what a statement on a closed connection does to the call: it throws
NotOpen(e) ==
    [e |-> e, res |-> [ok |-> FALSE, error |-> "The database connection is not open"]]

\* a call that has asked for an embedding before its first statement
NotOpenAfterEmbedding(g) ==
    IF g.ok THEN NotOpen(g.e)
    ELSE [e |-> g.e, res |-> [ok |-> FALSE, error |-> "embedding failed"]]

\* add on a closed connection: the id is drawn and the embedding of the
\* content, or of its first chunk, is computed before the first statement
\* (with deduplication the first statement is the one of _findDuplicate,
\* before the id is drawn)
addNotOpen(e, req, bad) ==
    LET chunked == ChunkTrigger(req)
        drawn == /\ req.customId = NoId
                 /\ (chunked \/ ~(req.deduplicate /\ embeddingFn))
        Embedded(e1, content) ==
            IF embeddingFn THEN NotOpenAfterEmbedding(getEmbedding(e1, content, bad))
            ELSE NotOpen(e1)
    IN Embedded(IF drawn THEN [e EXCEPT !.uuid = @ + 1] ELSE e,
                IF chunked THEN chunkText(req.content)[1] ELSE req.content)

\* search on a closed connection: the lexical query throws (in _ftsSearch it
\* is caught once, and thrown again by _keywordSearch), and _vectorSearch
\* has asked for the embedding of the query before its statement
searchNotOpen(e, req, bad) ==
    IF embeddingFn THEN NotOpenAfterEmbedding(getEmbedding(e, req.q, bad))
    ELSE NotOpen(e)

\* importBulk on a closed connection: the first add throws; without a
\* first add there is nothing to throw
importBulkNotOpen(e, exported, bad) ==
    IF exported = <<>> THEN [e |-> e, res |-> [ok |-> TRUE, n |-> 0]]
    ELSE addNotOpen(e, ImportRequest(exported[1]), bad)

\* a call of op with req: r on an open connection, c on a closed one
Call(op, req, r, c) == Commit(op, req, IF open THEN r ELSE c)

Add(Requests, BadSets, Ties) ==
    \E req \in Requests, bad \in BadSets, tb \in Ties :
        Call("add", req, add(Engine, req, bad, tb, now), addNotOpen(Engine, req, bad))

Update(IdSet, Updates, BadSets) ==
    \E id \in IdSet, updates \in Updates, bad \in BadSets :
        Call("update", [id |-> id, updates |-> updates],
             update(Engine, id, updates, bad, now), NotOpen(Engine))

Search(Requests, BadSets, Ties) ==
    \E req \in Requests, bad \in BadSets, tb \in Ties :
        Call("search", req, search(Engine, req, bad, tb, now),
             searchNotOpen(Engine, req, bad))

GetProfile(ContainerTags, Queries, BadSets, Ties) ==
    \E containerTag \in ContainerTags, queryText \in Queries,
       bad \in BadSets, tb \in Ties :
        Call("getProfile", [containerTag |-> containerTag, queryText |-> queryText],
             getProfile(Engine, containerTag, queryText, bad, tb, now),
             NotOpen(Engine))

AddConversation(Requests, Extractions, BadSets, Ties) ==
    \E req \in Requests, extracted \in Extractions, bad \in BadSets, tb \in Ties :
        Call("addConversation",
             [conversationId |-> req.conversationId, messages |-> req.messages,
              containerTags |-> req.containerTags,
              extractFacts |-> req.extractFacts, extracted |-> extracted],
             addConversation(Engine, req, extracted, bad, tb, now),
             NotOpen([Engine EXCEPT !.uuid = @ + 1]))

Delete(IdSet, Hard) ==
    \E id \in IdSet, hard \in Hard :
        Call("delete", [id |-> id, hard |-> hard], delete(Engine, id, hard, now),
             NotOpen(Engine))

Restore(IdSet) ==
    \E id \in IdSet :
        Call("restore", [id |-> id], restore(Engine, id, now), NotOpen(Engine))

Link(Sources, Targets, Relations, Strengths) ==
    \E sourceId \in Sources, targetId \in Targets, relation \in Relations,
       strength \in Strengths :
        Call("link", [sourceId |-> sourceId, targetId |-> targetId,
                      relation |-> relation, strength |-> strength],
             link(Engine, sourceId, targetId, relation, strength), NotOpen(Engine))

GetRelated(IdSet, Relations, Limits, Ties) ==
    \E memoryId \in IdSet, relation \in Relations, limit \in Limits,
       tb \in Ties :
        Call("getRelated", [memoryId |-> memoryId, relation |-> relation,
                            limit |-> limit],
             [e |-> Engine,
              res |-> [ok |-> TRUE,
                       rows |-> getRelated(Engine, memoryId, relation, limit, tb)]],
             NotOpen(Engine))

Cleanup(MaxAges, DryRuns) ==
    \E maxAgeDays \in MaxAges, dryRun \in DryRuns :
        Call("cleanup", [maxAgeDays |-> maxAgeDays, dryRun |-> dryRun],
             cleanup(Engine, maxAgeDays, dryRun, now), NotOpen(Engine))

Vacuum ==
    \E renumber \in BOOLEAN :
        Call("vacuum", <<>>, vacuum(Engine, renumber, now), NotOpen(Engine))

ExportAll(TagLists, Ties) ==
    \E tagSeq \in TagLists, tb \in Ties :
        Call("exportAll", [containerTags |-> tagSeq],
             [e |-> Engine, res |-> [ok |-> TRUE, rows |-> exportAll(Engine, tagSeq, tb)]],
             NotOpen(Engine))

GetStats(TagLists) ==
    \E tagSeq \in TagLists :
        Call("getStats", [containerTags |-> tagSeq],
             [e |-> Engine, res |-> getStats(Engine, tagSeq)], NotOpen(Engine))

AddBulk(RequestLists, BadSets, Ties) ==
    \E memories \in RequestLists, bad \in BadSets, tb \in Ties :
        Call("addBulk", memories, addBulk(Engine, memories, strictTx, bad, tb, now),
             NotOpen(Engine))

ImportBulk(ExportLists, BadSets, Ties) ==
    \E exported \in ExportLists, bad \in BadSets, tb \in Ties :
        Call("importBulk", exported, importBulk(Engine, exported, bad, tb, now),
             importBulkNotOpen(Engine, exported, bad))

\* close: the cache is cleared and the connection closed (closing a closed
\* connection does nothing)
Close ==
    /\ cache' = <<>>
    /\ open' = FALSE
    /\ last' = [op |-> "close", req |-> <<>>, res |-> [ok |-> TRUE]]
    /\ UNCHANGED <<mem, tags, links, fts, conversations, uuid, embeddingFn, hasFTS,
                   onFactsExtracted, strictTx,
                       embeddingCacheMaxSize, pending, now>>

\* a new engine on a path where there is no database yet: the tables are
\* created empty
OpenNew(Options) ==
    /\ ~open
    /\ open' = TRUE
    /\ mem' = <<>> /\ tags' = {} /\ links' = {} /\ fts' = <<>>
    /\ conversations' = <<>>
    /\ cache' = <<>>
    /\ embeddingFn' \in Options
    /\ last' = [op |-> "new", req |-> <<>>, res |-> [ok |-> TRUE]]
    /\ UNCHANGED <<uuid, hasFTS, onFactsExtracted, strictTx,
                       embeddingCacheMaxSize, pending, now>>

\* new MemoryEngine({dbPath, embeddingFn}) on the path of the database the
\* closed engine worked on: every CREATE is IF NOT EXISTS, the tables are as
\* they were; the cache is new, the embedding function is the option given
Open(Options) ==
    /\ ~open
    /\ open' = TRUE
    /\ cache' = <<>>
    /\ embeddingFn' \in Options
    /\ last' = [op |-> "new", req |-> <<>>, res |-> [ok |-> TRUE]]
    /\ UNCHANGED <<mem, tags, links, fts, conversations, uuid, hasFTS,
                   onFactsExtracted, strictTx,
                       embeddingCacheMaxSize, pending, now>>

\* time passes
Tick(Steps) ==
    \E dt \in Steps :
        /\ now + dt <= MaxTime
        /\ now' = now + dt
        /\ last' = [op |-> "tick", req |-> dt, res |-> [ok |-> TRUE]]
        /\ UNCHANGED <<mem, tags, links, fts, conversations, cache, uuid, open,
                       embeddingFn, hasFTS, onFactsExtracted, strictTx,
                       embeddingCacheMaxSize, pending>>

\* a long time passes at once, from within the horizon of the model
Wait(Steps) ==
    \E dt \in Steps :
        /\ now <= MaxTime
        /\ now' = now + dt
        /\ last' = [op |-> "tick", req |-> dt, res |-> [ok |-> TRUE]]
        /\ UNCHANGED <<mem, tags, links, fts, conversations, cache, uuid, open,
                       embeddingFn, hasFTS, onFactsExtracted, strictTx,
                       embeddingCacheMaxSize, pending>>

-----------------------------------------------------------------------------
(* Calls that are suspended at an await *)

\* the locals of a call that has not read a row
NoRow == [rowid |-> 0]

\* a call of add or update between two of its awaits. pc is where it goes
\* on: "provider" inside _getEmbedding at await this.embeddingFn(text), with
\* next the place after it; "scan" in _findDuplicate after its embedding;
\* "found" and "notfound" in add after await this._findDuplicate; "insert"
\* in add and "write" in update after await this._getEmbedding. id, vec and
\* existing are the locals of the call
Suspended(op, req) ==
    [op |-> op, req |-> req, pc |-> "", next |-> "", id |-> NoId, vec |-> NoVec,
     existing |-> NoRow]

\* await this._getEmbedding(text) up to its suspension: on a hit the call
\* goes on at next with the cached vector, on a miss the provider is asked
awaitEmbedding(e, task, text, next) ==
    IF text \in Range(e.cache)
    THEN [task EXCEPT !.pc = next, !.vec = Embed(text)]
    ELSE [task EXCEPT !.pc = "provider", !.next = next]

\* add of a content that is not chunked, with an embedding function, up to
\* its first suspension
startAdd(e, req) ==
    LET fresh == req.customId = NoId
        Drawn(task) ==
            [task EXCEPT !.id = IF fresh THEN Uuid(e.uuid + 1) ELSE req.customId]
    IN IF req.deduplicate
       THEN [e |-> e,
             task |-> awaitEmbedding(e, Suspended("add", req), req.content, "scan")]
       ELSE [e |-> IF fresh THEN [e EXCEPT !.uuid = @ + 1] ELSE e,
             task |-> awaitEmbedding(e, Drawn(Suspended("add", req)),
                                     req.content, "insert")]

\* update of a stored record with a new content, with an embedding
\* function, up to its suspension: existing is read before it
startUpdate(e, id, updates) ==
    [e |-> e,
     task |-> awaitEmbedding(e, [Suspended("update", [id |-> id, updates |-> updates])
                                    EXCEPT !.id = id, !.existing = e.mem[id]],
                             updates.content, "write")]

\* a suspended call from where it is to its next suspension or to its end
resume(e, task, bad, tb, t) ==
    LET text == IF task.op = "add" THEN task.req.content
                ELSE task.req.updates.content
        Goes(e1, task1) ==
            [e |-> e1, done |-> FALSE, task |-> task1, res |-> [ok |-> TRUE]]
        Ends(r) == [e |-> r.e, done |-> TRUE, task |-> task, res |-> r.res]
        Thrown ==
            IF task.op = "add"
            THEN [e |-> e, res |-> AddResult(FALSE, "embedding failed", NoId, FALSE, 0)]
            ELSE [e |-> e, res |-> [ok |-> FALSE, success |-> FALSE,
                                    error |-> "embedding failed"]]
        Scanned(d) ==
            IF d.found
            THEN [task EXCEPT !.pc = "found", !.id = d.id, !.existing = e.mem[d.id]]
            ELSE [task EXCEPT !.pc = "notfound"]
        Created(fresh) ==
            Goes(IF fresh THEN [e EXCEPT !.uuid = @ + 1] ELSE e,
                 awaitEmbedding(e, [task EXCEPT !.id = IF fresh THEN Uuid(e.uuid + 1)
                                                       ELSE task.req.customId],
                                text, "insert"))
    IN CASE task.pc = "provider" ->
                IF text \in bad THEN Ends(Thrown)
                ELSE Goes(cachePut(e, text),
                          [task EXCEPT !.pc = task.next, !.vec = Embed(text)])
         [] task.pc = "scan" ->
                Goes(e, Scanned(scanForDuplicate(e, task.vec,
                                                 task.req.containerTags, tb)))
         [] task.pc = "found" ->
                Ends(mergeRow(e, task.id, task.existing, task.req.content,
                              task.req.metadata, task.req.importance, t))
         [] task.pc = "notfound" -> Created(task.req.customId = NoId)
         [] task.pc = "insert" ->
                Ends(InsertMemory(e, task.id, task.req, task.vec, t))
         [] task.pc = "write" ->
                Ends(updateWrite(e, task.req.id, task.existing, task.req.updates,
                                 task.vec, t))

\* the sequence s without its k-th element
Without(s, k) == SubSeq(s, 1, k - 1) \o SubSeq(s, k + 1, Len(s))

\* a step of a call that is suspended after it, or ends with it
Proceed(e1, suspended, step) ==
    /\ WithinBounds(e1)
    /\ mem' = e1.mem
    /\ tags' = e1.tags
    /\ links' = e1.links
    /\ fts' = e1.fts
    /\ conversations' = e1.conversations
    /\ cache' = e1.cache
    /\ uuid' = e1.uuid
    /\ pending' = suspended
    /\ last' = step
    /\ UNCHANGED <<open, embeddingFn, hasFTS, onFactsExtracted, strictTx,
                   embeddingCacheMaxSize, now>>

\* what a call that is suspended has returned so far
Awaiting(task) ==
    [op |-> "await", req |-> [op |-> task.op, req |-> task.req],
     res |-> [ok |-> TRUE]]

\* add is called and runs to its first await
StartAdd(Requests) ==
    \E req \in Requests :
        /\ open /\ embeddingFn
        /\ ~ChunkTrigger(req)
        /\ Len(pending) < MaxPending
        /\ \E s \in {startAdd(Engine, req)} :
               Proceed(s.e, Append(pending, s.task), Awaiting(s.task))

\* update is called and runs to its await
StartUpdate(IdSet, Updates) ==
    \E id \in IdSet, updates \in Updates :
        /\ open /\ embeddingFn
        /\ getById(Engine, id)
        /\ "content" \in updates.has /\ updates.content # <<>>
        /\ Len(pending) < MaxPending
        /\ \E s \in {startUpdate(Engine, id, updates)} :
               Proceed(s.e, Append(pending, s.task), Awaiting(s.task))

\* one of the suspended calls goes on, to its next await or to its end
Resume(BadSets, Ties) ==
    \E k \in 1..Len(pending), bad \in BadSets, tb \in Ties :
        /\ open
        /\ \E r \in {resume(Engine, pending[k], bad, tb, now)} :
               IF r.done
               THEN Proceed(r.e, Without(pending, k),
                            [op |-> pending[k].op, req |-> pending[k].req,
                             res |-> r.res])
               ELSE Proceed(r.e, [pending EXCEPT ![k] = r.task], Awaiting(r.task))

-----------------------------------------------------------------------------
(* Calls *)

\* add({content, containerTags, memoryType, importance}), the rest by default
AddRequest(content, containerTags, memoryType, importance) ==
    [content |-> content, containerTags |-> containerTags, customId |-> NoId,
     metadata |-> NoMeta, memoryType |-> memoryType, importance |-> importance,
     source |-> "user", summary |-> NullText, autoChunk |-> TRUE,
     deduplicate |-> TRUE]

\* search({q, containerTags, limit, minImportance}), the rest by default
SearchRequest(q, containerTags, limit, minImportance) ==
    [q |-> q, containerTags |-> containerTags, limit |-> limit,
     memoryTypes |-> {}, minImportance |-> minImportance,
     includeDeleted |-> FALSE]

DefaultLimit == 10
NoFailure == {{}}
StoredIds == DOMAIN mem

Alex == <<Word("alex")>>
AlexLondon == <<Word("alex"), SP, Word("london")>>
Sushi == <<Word("sushi")>>

-----------------------------------------------------------------------------
(* Retention: records of every type and importance age, are searched, and
   cleanup runs dry or for real *)

\* record a is of any type and importance, record b is dynamic and normal
CleanupAdds ==
    {[AddRequest(Alex, <<"default">>, k[1], k[2]) EXCEPT !.customId = <<"a">>] :
        k \in ({"dynamic"} \X Importances) \cup (MemoryTypes \X {"normal"})
              \cup {<<"static", "critical">>}}
    \cup {[AddRequest(Sushi, <<"default">>, "dynamic", "normal")
              EXCEPT !.customId = <<"b">>]}

CleanupSearches == {SearchRequest(Alex, <<"default">>, DefaultLimit, "none")}

InitCleanup == Init /\ ~embeddingFn /\ hasFTS /\ ~strictTx

NextCleanup ==
    \/ Add(CleanupAdds, NoFailure, RowidOrder)
    \/ Search(CleanupSearches, NoFailure, RowidOrder)
    \/ Cleanup({0, 1}, BOOLEAN)
    \/ Tick({1})

SpecCleanup == InitCleanup /\ [][NextCleanup]_vars

\* the records a cleanup may remove: non-deleted, dynamic, neither critical
\* nor high, and returned by fewer than 3 searches
CleanupEligible ==
    {i \in StoredIds : /\ ~mem[i].is_deleted
                       /\ mem[i].memory_type = "dynamic"
                       /\ mem[i].importance \notin {"critical", "high"}
                       /\ mem[i].access_count < 3}

\* C6: a non-dry-run cleanup(maxAgeDays) flips the is_deleted flag of
\* exactly the records that at call time are non-deleted, dynamic, last
\* updated before now - maxAgeDays, neither critical nor high, and with
\* access_count < 3; no other record's flag changes. (A tick is the
\* resolution of the clock: a record updated in the tick of the cutoff may
\* fall on either side of it, one updated in a later tick is not before it.)
C6_CleanupRemovesExactlyTheStale ==
    [][(last'.op = "cleanup" /\ ~last'.req.dryRun) =>
          LET cutoff == now - last'.req.maxAgeDays * TicksPerDay
              flipped == {i \in StoredIds : mem'[i].is_deleted # mem[i].is_deleted}
          IN /\ flipped \subseteq {i \in CleanupEligible : mem[i].updated_at <= cutoff}
             /\ {i \in CleanupEligible : mem[i].updated_at < cutoff} \subseteq flipped]_vars

\* the records a cleanup call soft-deletes when it does not run dry
WouldDelete(maxAgeDays) ==
    {i \in StoredIds :
        /\ ~mem[i].is_deleted
        /\ cleanup(Engine, maxAgeDays, FALSE, now).e.mem[i].is_deleted}

\* C7: a dry-run cleanup changes no record, tag association, edge or index
\* entry, and the wouldDelete it reports is the number of records the same
\* call without dryRun would soft-delete from the same state.
C7_DryRunChangesNothing ==
    [][(last'.op = "cleanup" /\ last'.req.dryRun) =>
          /\ UNCHANGED <<mem, tags, links, fts>>
          /\ last'.res.count = Cardinality(WouldDelete(last'.req.maxAgeDays))]_vars

\* a dry run over one old dynamic/normal/unaccessed record and one
\* static/critical record has reported 1, the dynamic record only
C7_Witness ==
    /\ last.op = "cleanup" /\ last.req.dryRun
    /\ StoredIds = {<<"a">>, <<"b">>}
    /\ mem[<<"a">>].memory_type = "static" /\ mem[<<"a">>].importance = "critical"
    /\ mem[<<"b">>].access_count = 0 /\ ~mem[<<"b">>].is_deleted
    /\ last.res.count = 1 /\ last.res.items = {<<"b">>}

-----------------------------------------------------------------------------
(* Importance: records of every importance are searched with every
   minimum importance, with and without an embedding function and FTS5 *)

ImportanceAdds ==
    {[AddRequest(Alex, <<"default">>, "dynamic", im) EXCEPT !.customId = <<"a">>] :
        im \in Importances}
    \cup {[AddRequest(AlexLondon, <<"default">>, "static", im)
              EXCEPT !.customId = <<"b">>] : im \in {"low", "high"}}

ImportanceSearches ==
    {SearchRequest(q, <<"default">>, DefaultLimit, m) :
        q \in {Alex, <<>>}, m \in {"none"} \cup Importances}

InitImportance == Init /\ ~strictTx

NextImportance ==
    \/ Add(ImportanceAdds, NoFailure, RowidOrder)
    \/ Search(ImportanceSearches, NoFailure, RowidOrder)

SpecImportance == InitImportance /\ [][NextImportance]_vars

\* the records a search or profile call returned
Returned == {last.res.results[k].id : k \in 1..Len(last.res.results)}

\* C5: every record a search with minImportance = m returns has importance
\* weight >= weight(m) under critical=4, high=3, normal=2, low=1; with
\* minImportance 'high' no returned record is of importance normal or low.
C5_MinImportance ==
    (last.op = "search" /\ last.req.minImportance \in Importances) =>
        \A k \in 1..Len(last.res.results) :
            /\ IMPORTANCE_WEIGHTS[last.res.results[k].row.importance]
                   >= IMPORTANCE_WEIGHTS[last.req.minImportance]
            /\ last.req.minImportance = "high" =>
                   last.res.results[k].row.importance \notin {"normal", "low"}

\* a search with minImportance 'high' returned the high record and left
\* out a matching normal one
C5_Witness ==
    /\ last.op = "search" /\ last.req.minImportance = "high"
    /\ StoredIds = {<<"a">>, <<"b">>}
    /\ mem[<<"a">>].importance = "normal" /\ mem[<<"b">>].importance = "high"
    /\ Returned = {<<"b">>}

\* C17: a search adds exactly 1 to access_count and sets last_accessed_at
\* for each record it returns, and changes nothing else: no field of a
\* record it did not return, no other field of a record it returned, no
\* tag, edge or index entry.
C17_SearchBumpsOnlyReturned ==
    [][(last'.op = "search" /\ last'.res.ok) =>
          LET ret == {last'.res.results[k].id : k \in 1..Len(last'.res.results)}
          IN /\ DOMAIN mem' = DOMAIN mem
             /\ UNCHANGED <<tags, links, fts>>
             /\ \A i \in DOMAIN mem :
                   IF i \in ret
                   THEN mem'[i] = [mem[i] EXCEPT
                                      !.access_count = mem[i].access_count + 1,
                                      !.last_accessed_at = now]
                   ELSE mem'[i] = mem[i]]_vars

\* a search returned one of two records for the second time and never the
\* other
C17_Witness ==
    /\ last.op = "search" /\ last.res.ok
    /\ \E i \in Returned, j \in DOMAIN mem \ Returned :
          /\ mem[i].access_count = 2 /\ mem[i].last_accessed_at = now
          /\ mem[j].access_count = 0 /\ mem[j].last_accessed_at = NoTime

-----------------------------------------------------------------------------
(* Tag scopes: records under one tag, two tags and the default tag are read
   by search, getProfile and exportAll with every kind of scope *)

ScopeAdds ==
    {[AddRequest(Alex, tgs, "static", "normal") EXCEPT !.customId = <<"a">>] :
        tgs \in {<<"t1">>, <<"t1", "t2">>}}
    \cup {[AddRequest(Alex, <<"default">>, "dynamic", "normal")
              EXCEPT !.customId = <<"b">>]}

ScopeSearches ==
    {SearchRequest(Alex, tgs, DefaultLimit, "none") :
        tgs \in {<<>>, <<"t1">>, <<"t2">>}}

ScopeProfiles == {NoTag, OneTag("t2"), TagArray(<<>>), TagArray(<<"t1", "t2">>)}

InitScope == Init /\ ~strictTx

NextScope ==
    \/ Add(ScopeAdds, NoFailure, RowidOrder)
    \/ Search(ScopeSearches, NoFailure, RowidOrder)
    \/ GetProfile(ScopeProfiles, {Alex}, NoFailure, RowidOrder)
    \/ ExportAll({<<>>, <<"t1">>, <<"t2">>}, RowidOrder)

SpecScope == InitScope /\ [][NextScope]_vars

Reads == {"search", "getProfile", "exportAll"}

\* the records the last read returned
ReturnedIds ==
    CASE last.op = "search" -> Returned
      [] last.op = "getProfile" ->
            Range(last.res.static) \cup Range(last.res.dynamic) \cup Returned
      [] last.op = "exportAll" -> {last.res.rows[k].id : k \in 1..Len(last.res.rows)}
      [] OTHER -> {}

\* the tags the last read was called with (getProfile without a tag reads
\* the tag 'default')
CallScope ==
    CASE last.op = "getProfile" ->
            IF last.req.containerTag = NoTag THEN {"default"}
            ELSE Range(last.req.containerTag.tags)
      [] last.op \in {"search", "exportAll"} -> Range(last.req.containerTags)
      [] OTHER -> {}

\* the text a read looked for (<<>>: none)
CallQuery ==
    CASE last.op = "search" -> last.req.q
      [] last.op = "getProfile" -> last.req.queryText
      [] OTHER -> <<>>

\* every returned record carries a tag of the scope
OnlyInScope == \A i \in ReturnedIds : TagsOf(Engine, i) \cap CallScope # {}

\* a record under a tag of the scope is returned: by exportAll, by a search
\* for words of its content (or for nothing), by getProfile in the list of
\* its type
EachInScope ==
    \A i \in StoredIds :
        (~mem[i].is_deleted /\ TagsOf(Engine, i) \cap CallScope # {}) =>
            CASE last.op = "exportAll" -> i \in ReturnedIds
              [] last.op = "search" ->
                    (last.res.ok /\ ~last.req.includeDeleted
                     /\ WordsOf(CallQuery) \subseteq WordsOf(mem[i].content))
                        => i \in Returned
              [] last.op = "getProfile" ->
                    /\ mem[i].memory_type = "static" => i \in Range(last.res.static)
                    /\ mem[i].memory_type \in {"dynamic", "episodic"}
                           => i \in Range(last.res.dynamic)
                    /\ (CallQuery # <<>> /\ last.res.ok
                        /\ WordsOf(CallQuery) \subseteq WordsOf(mem[i].content))
                           => i \in Returned
              [] OTHER -> TRUE

\* the scope a read is said to have: its tags, or the tag 'default' of a
\* call that names none
StatedScope == IF CallScope = {} THEN {"default"} ELSE CallScope

-----------------------------------------------------------------------------
(* Soft delete and restore: two records are deleted, restored, updated and
   read *)

DeleteAdds ==
    {[AddRequest(Alex, <<"default">>, "static", "normal") EXCEPT !.customId = <<"a">>]}
    \cup {[AddRequest(Sushi, <<"default">>, "dynamic", "normal")
              EXCEPT !.customId = <<"b">>]}

DeleteSearches ==
    {[SearchRequest(Alex, <<"default">>, DefaultLimit, "none")
         EXCEPT !.includeDeleted = d] : d \in BOOLEAN}

\* update(id, {content})
ContentUpdate(content) ==
    [has |-> {"content"}, content |-> content, summary |-> NullText,
     importance |-> "normal", metadata |-> NoMeta, containerTags |-> <<>>]

InitDelete == Init /\ ~strictTx

NextDelete ==
    \/ Add(DeleteAdds, NoFailure, RowidOrder)
    \/ Delete(StoredIds, {FALSE})
    \/ Restore(StoredIds)
    \/ Update(StoredIds \cap {<<"a">>}, {ContentUpdate(AlexLondon)}, NoFailure)
    \/ Search(DeleteSearches, NoFailure, RowidOrder)
    \/ GetProfile({NoTag}, {Alex}, NoFailure, RowidOrder)

SpecDelete == InitDelete /\ [][NextDelete]_vars

\* C1 (as stated): between a soft delete(id) and restore(id) no search
\* result and no getProfile list contains record id, for any query and tag
\* scope.
C1_DeletedNeverSurfaced ==
    last.op \in {"search", "getProfile"} =>
        \A i \in ReturnedIds : ~mem[i].is_deleted

\* C1 (amended): between a soft delete(id) and restore(id) no result of a
\* search that does not ask for deleted records (includeDeleted false, the
\* default) and no getProfile list contains record id, and the content of
\* the record does not change; restore(id) clears the flag, so that search
\* and getProfile return the record again, with that content.
C1_DeletedHiddenUntilRestored ==
    /\ []((last.op = "getProfile" \/ (last.op = "search" /\ ~last.req.includeDeleted))
            => /\ \A i \in ReturnedIds : ~mem[i].is_deleted
               /\ EachInScope)
    /\ [][\A i \in StoredIds :
             (mem[i].is_deleted /\ i \in DOMAIN mem') =>
                 /\ mem'[i].content = mem[i].content
                 /\ (~mem'[i].is_deleted => last'.op = "restore")
                 /\ (last'.op = "restore" /\ last'.req.id = i) => ~mem'[i].is_deleted]_vars

\* a search for a word of two records ran while one of them was deleted,
\* and returned the other only
C1_Witness ==
    /\ last.op = "search" /\ ~last.req.includeDeleted /\ last.req.q = Alex
    /\ StoredIds = {<<"a">>, <<"b">>}
    /\ mem[<<"a">>].is_deleted /\ mem[<<"a">>].content = AlexLondon
    /\ ~mem[<<"b">>].is_deleted
    /\ Returned = IF embeddingFn THEN {<<"b">>} ELSE {}

-----------------------------------------------------------------------------
(* Deduplication: the same contents are added again and again under fresh
   ids, with an embedding function *)

\* a text the embedding function maps to the zero vector
Hi == <<Word("hi")>>
\* two paragraphs of 1200 characters
LoremIpsum == <<Long("lorem", 1200), PB, Long("ipsum", 1200)>>

DedupAdds ==
    {AddRequest(Alex, <<"default">>, "dynamic", im) : im \in {"normal", "high"}}
    \cup {AddRequest(c, <<"default">>, "dynamic", "normal") : c \in {Hi, LoremIpsum}}

InitDedup == Init /\ embeddingFn /\ hasFTS /\ ~strictTx

NextDedup ==
    \/ Add(DedupAdds, NoFailure, TieBreaks)
    \/ Delete(StoredIds, {FALSE})

SpecDedup == InitDedup /\ [][NextDedup]_vars

\* the step is the second of two adds of the same content into the same
\* tag scope, both with deduplication, the first of which stored a record
SecondAddOfSame ==
    /\ embeddingFn
    /\ last.op = "add" /\ last.res.ok /\ ~last.res.merged /\ last.req.deduplicate
    /\ last'.op = "add" /\ last'.req.deduplicate
    /\ last'.req.content = last.req.content
    /\ last'.req.containerTags = last.req.containerTags

\* what the second add is to leave: no new record, merged = true with the
\* id of the first, the higher importance, the (longer) content
MergedIntoFirst ==
    LET id == last.res.id
    IN /\ last'.res.ok /\ last'.res.merged /\ last'.res.id = id
       /\ DOMAIN mem' = DOMAIN mem
       /\ Cardinality({i \in DOMAIN mem' : /\ ~mem'[i].is_deleted
                                            /\ mem'[i].content = last.req.content}) = 1
       /\ mem'[id].content = last.req.content
       /\ IMPORTANCE_WEIGHTS[mem'[id].importance] =
              Max(IMPORTANCE_WEIGHTS[last.req.importance],
                  IMPORTANCE_WEIGHTS[last'.req.importance])

\* C2 (as stated): with deduplication and an embedding function, two
\* sequential adds of the same content into the same tag scope leave
\* exactly one record: the second returns merged = true with the first
\* record's id, the importance is the higher of the two requested, the
\* content the longer of the two.
C2_SecondAddMerges ==
    [][SecondAddOfSame => MergedIntoFirst]_vars

\* C2 (amended): the same, for a content that is not chunked (at most 2250
\* characters) and whose embedding is not the zero vector.
C2_SecondAddMergesUnchunked ==
    [][(/\ SecondAddOfSame
        /\ ~ChunkTrigger(last.req)
        /\ Embed(last.req.content) # <<0, 0>>) => MergedIntoFirst]_vars

\* a normal record was added again as high and merged: one record, high
C2_Witness ==
    /\ last.op = "add" /\ last.res.merged /\ last.req.importance = "high"
    /\ last.req.content = Alex
    /\ StoredIds = {Uuid(1)}
    /\ mem[Uuid(1)].content = Alex /\ mem[Uuid(1)].importance = "high"

-----------------------------------------------------------------------------
(* Finding what was added: two records, and searches for a word, the end of
   a word and the start of a word, with every configuration *)

FindAdds ==
    {[AddRequest(AlexLondon, <<"default">>, "dynamic", "normal")
         EXCEPT !.customId = <<"a">>],
     [AddRequest(Sushi, <<"default">>, "static", "critical")
         EXCEPT !.customId = <<"b">>]}

FindSearches ==
    {SearchRequest(<<Word(w)>>, <<"default">>, n, "none") :
        w \in {"london", "ondon", "su"}, n \in {1, DefaultLimit}}

InitFind == Init /\ ~strictTx

NextFind ==
    \/ Add(FindAdds, NoFailure, RowidOrder)
    \/ Search(FindSearches, NoFailure, TieBreaks)

SpecFind == InitFind /\ [][NextFind]_vars

\* the query has a word that is a substring of a word of the content and of
\* no word of another record
HasUniqueSubstring(q, content, id) ==
    \E w \in WordsOf(q) :
        /\ \E cw \in WordsOf(content) : IsSubstr(w, cw)
        /\ \A j \in StoredIds \ {id} :
               \A cw \in WordsOf(mem[j].content) : ~IsSubstr(w, cw)

\* C3: for every content not exceeding the chunk threshold, add followed by
\* a search of the same tag scope whose query contains a substring that
\* occurs only in that content returns the added record, whatever other
\* records are in the scope, with or without an embedding function.
C3_AddThenSearchFinds ==
    [][(/\ last.op = "add" /\ last.res.ok /\ ~last.res.merged
        /\ ~ChunkTrigger(last.req)
        /\ last'.op = "search" /\ last'.res.ok
        /\ last'.req.containerTags = last.req.containerTags
        /\ HasUniqueSubstring(last'.req.q, last.req.content, last.res.id))
          => last.res.id \in {last'.res.results[k].id :
                                 k \in 1..Len(last'.res.results)}]_vars

-----------------------------------------------------------------------------
(* Long contents and batches: documents of every shape are added, with and
   without deduplication, a caller's id and a failing embedding call; lists
   are added by addBulk and importBulk *)

\* one paragraph of 2300 characters
OneParagraph == <<Long("sushi", 2300)>>
\* one paragraph of 4000 characters without a full stop
NoStops == <<Long("alex", 4000)>>
\* one paragraph of two sentences of 1600 characters and a tail
TwoSentences ==
    <<Long("lorem", 1600), DOT, SP, Long("ipsum", 1600), DOT, SP, Word("tail")>>

Summary == <<Word("summary")>>

\* a long content under the tags t1 and t2, with a summary
LongAdd(content, customId, deduplicate) ==
    [AddRequest(content, <<"t1", "t2">>, "static", "high")
        EXCEPT !.customId = customId, !.deduplicate = deduplicate,
               !.summary = Summary]

ChunkAdds ==
    {LongAdd(LoremIpsum, id, d) : id \in {NoId, <<"a">>}, d \in BOOLEAN}
    \cup {LongAdd(c, <<"a">>, FALSE) : c \in {OneParagraph, NoStops, TwoSentences}}

\* the embedding call fails for the second chunk of LoremIpsum
SecondChunkFails == {{}, {chunkText(LoremIpsum)[2]}}

\* two short records, the second under the id of the first
BulkList ==
    <<[AddRequest(Alex, <<"default">>, "dynamic", "normal") EXCEPT !.customId = <<"x">>],
      [AddRequest(Sushi, <<"default">>, "dynamic", "normal") EXCEPT !.customId = <<"x">>]>>

\* a record as exportAll writes it
Exported(id, content) ==
    [id |-> id,
     row |-> [rowid |-> 1, content |-> content, summary |-> NullText,
              memory_type |-> "dynamic", importance |-> "normal",
              source |-> "user", metadata |-> NoMeta, embedding |-> NoVec,
              access_count |-> 0, last_accessed_at |-> NoTime,
              is_deleted |-> FALSE, created_at |-> 0, updated_at |-> 0],
     tags |-> {"default"}]

InitChunk == Init /\ hasFTS

NextChunk ==
    \/ Add(ChunkAdds, SecondChunkFails, RowidOrder)
    \/ AddBulk({BulkList}, NoFailure, RowidOrder)
    \/ ImportBulk({<<Exported(<<"y">>, Alex), Exported(<<"y">>, Sushi)>>},
                  NoFailure, RowidOrder)

SpecChunk == InitChunk /\ [][NextChunk]_vars

\* the step is an add that hands its content to _addChunked
ChunkedAdd == last'.op = "add" /\ ChunkTrigger(last'.req)

\* the records a step stored
Stored == DOMAIN mem' \ DOMAIN mem

\* C8: for every content of more than 2250 characters added with
\* auto-chunking on, the engine stores at least 2 chunk records, each of at
\* most about 3000 characters (here: 3000 and the 200 of the overlap),
\* whatever the paragraph and sentence structure of the content.
C8_ChunksAreManyAndShort ==
    [][(/\ last'.op = "add" /\ last'.res.ok
        /\ last'.req.autoChunk /\ Length(last'.req.content) > 2250
        /\ ~(embeddingFn /\ last'.req.deduplicate))
          => /\ Cardinality(Stored) >= 2
             /\ \A i \in Stored : Length(mem'[i].content) <= 3000 + 200]_vars

\* C9: in a chunked add producing n chunks, with or without deduplication,
\* chunk 0 is stored under the caller's (or a fresh) id with the summary,
\* every chunk i > 0 under a derived id with the tags, type and importance
\* of the request, and every chunk i > 0 is linked to chunk 0 by an edge of
\* relation 'chunk' and strength 1.0 from the chunk to chunk 0.
C9_ChunksLinkedToFirst ==
    [][(ChunkedAdd /\ Len(chunkText(last'.req.content)) >= 2 /\ mem = <<>>) =>
          LET req == last'.req
              n == Len(chunkText(req.content))
              id == last'.res.id
          IN /\ last'.res.ok
             /\ id \in DOMAIN mem' /\ mem'[id].summary = req.summary
             /\ req.customId # NoId => id = req.customId
             /\ \A i \in 1..(n - 1) :
                   /\ ChunkId(id, i) \in DOMAIN mem'
                   /\ TagsOf(Engine', ChunkId(id, i)) = Range(req.containerTags)
                   /\ mem'[ChunkId(id, i)].memory_type = req.memoryType
                   /\ mem'[ChunkId(id, i)].importance = req.importance
                   /\ [source_id |-> ChunkId(id, i), target_id |-> id,
                       relation |-> "chunk", strength |-> 10] \in links']_vars

\* C10: a multi-record insertion (a chunked add, addBulk, importBulk) is
\* all-or-nothing: when a sub-insert fails part-way, no record, tag
\* association or edge written earlier in the call remains and the prior
\* state is unchanged.
C10_AllOrNothing ==
    [][((ChunkedAdd \/ last'.op \in {"addBulk", "importBulk"}) /\ ~last'.res.ok)
          => UNCHANGED <<mem, tags, links>>]_vars

-----------------------------------------------------------------------------
(* Merging: adds of two contents that the embedding function places close
   to each other (cosine 0.97), with importances below, above and outside
   the four, and soft deletes *)

MergeAdds ==
    {AddRequest(c, <<"default">>, "dynamic", im) :
        c \in {Alex, AlexLondon}, im \in {"low", "critical", "urgent"}}

InitMerge == Init /\ embeddingFn /\ hasFTS /\ ~strictTx

NextMerge ==
    \/ Add(MergeAdds, NoFailure, TieBreaks)
    \/ Delete(StoredIds, {FALSE})

SpecMerge == InitMerge /\ [][NextMerge]_vars

\* the step is an add that merged into an existing record
MergingAdd == last'.op = "add" /\ last'.res.ok /\ last'.res.merged

\* C11: an add that merges into an existing record leaves the record under
\* its id (and stores no other), its importance weight is the higher of the
\* existing and the new one and never lower than before, and its content is
\* the longer of the existing and the new one and never shorter than before.
C11_MergeNeverLoses ==
    [][MergingAdd =>
          LET id == last'.res.id
          IN /\ id \in DOMAIN mem /\ DOMAIN mem' = DOMAIN mem
             /\ ImportanceWeight(mem'[id].importance) >=
                    ImportanceWeight(mem[id].importance)
             /\ ImportanceWeight(mem'[id].importance) =
                    Max(ImportanceWeight(mem[id].importance),
                        ImportanceWeight(last'.req.importance))
             /\ Length(mem'[id].content) >= Length(mem[id].content)
             /\ Length(mem'[id].content) =
                    Max(Length(mem[id].content), Length(last'.req.content))]_vars

\* a shorter content of low importance was merged into a critical record
\* with the longer content, which kept both
C11_Witness ==
    /\ last.op = "add" /\ last.res.ok /\ last.res.merged
    /\ last.req.importance = "low" /\ last.req.content = Alex
    /\ last.res.id \in DOMAIN mem
    /\ mem[last.res.id].importance = "critical"
    /\ mem[last.res.id].content = AlexLondon

\* C35: with an embedding function, the embedding stored with a record is
\* the embedding of the record's content in every reachable state: a merge
\* or an update that changes the content recomputes it.
C35_EmbeddingOfContent ==
    embeddingFn => \A i \in DOMAIN mem : mem[i].embedding = Embed(mem[i].content)

-----------------------------------------------------------------------------
(* Tags: adds with one tag and with an empty tag list, updates that replace
   the tags of a record by one tag and by none, soft deletes *)

\* update(id, {containerTags})
TagsUpdate(tagSeq) ==
    [has |-> {"containerTags"}, content |-> NullText, summary |-> NullText,
     importance |-> "normal", metadata |-> NoMeta, containerTags |-> tagSeq]

TagAdds ==
    {[AddRequest(Alex, tg, "static", "normal") EXCEPT !.customId = <<"a">>] :
        tg \in {<<"default">>, <<>>}}
    \cup {[AddRequest(Sushi, <<"default">>, "dynamic", "normal")
              EXCEPT !.customId = <<"b">>]}

InitTags == Init /\ ~strictTx

NextTags ==
    \/ Add(TagAdds, NoFailure, RowidOrder)
    \/ Update(StoredIds, {TagsUpdate(<<>>), TagsUpdate(<<"t1">>)}, NoFailure)
    \/ Delete(StoredIds, {FALSE})

SpecTags == InitTags /\ [][NextTags]_vars

\* C12: in every reachable state every stored record, soft-deleted or not,
\* has at least one tag association: no add, one given an empty tag list
\* included, and no update that replaces the tags leaves a record without.
C12_EveryRecordTagged ==
    \A i \in DOMAIN mem : TagsOf(Engine, i) # {}

-----------------------------------------------------------------------------
(* Unknown and soft-deleted ids: two records a and b, and update, delete,
   restore and link called with a, b and an id c that is never stored *)

NotFoundAdds ==
    {[AddRequest(Alex, <<"default">>, "static", "normal") EXCEPT !.customId = <<"a">>],
     [AddRequest(Sushi, <<"default">>, "dynamic", "normal")
         EXCEPT !.customId = <<"b">>]}

KnownAndUnknownIds == {<<"a">>, <<"c">>}

InitNotFound == Init /\ ~strictTx

NextNotFound ==
    \/ Add(NotFoundAdds, NoFailure, RowidOrder)
    \/ Update(KnownAndUnknownIds, {ContentUpdate(AlexLondon)}, NoFailure)
    \/ Delete(KnownAndUnknownIds, BOOLEAN)
    \/ Restore(KnownAndUnknownIds)
    \/ Link(KnownAndUnknownIds \cup {<<"b">>}, KnownAndUnknownIds \cup {<<"b">>},
            {"related"}, {10})

SpecNotFound == InitNotFound /\ [][NextNotFound]_vars

Unknown(id) == id \notin DOMAIN mem
SoftDeleted(id) == id \in DOMAIN mem /\ mem[id].is_deleted

\* C13: update of an id that is unknown or soft-deleted returns the
\* not-found result (success false) and changes no record, tag association
\* or index entry.
C13_UpdateNotFound ==
    [][(/\ last'.op = "update"
        /\ (Unknown(last'.req.id) \/ SoftDeleted(last'.req.id)))
          => /\ last'.res = [ok |-> TRUE, success |-> FALSE]
             /\ UNCHANGED <<mem, tags, fts, links>>]_vars

\* an update was called on the soft-deleted record a and found nothing: a
\* has the content and the tag it was added with
C13_Witness ==
    /\ last.op = "update" /\ last.req.id = <<"a">> /\ ~last.res.success
    /\ SoftDeleted(<<"a">>)
    /\ mem[<<"a">>].content = Alex
    /\ TagsOf(Engine, <<"a">>) = {"default"}

\* C14: delete, restore and link that reference an unknown id, and delete
\* and link that reference a soft-deleted id, fail (they do not report
\* success) and leave the store unchanged.
C14_NotFoundFails ==
    [][(\/ /\ last'.op \in {"delete", "restore"} /\ Unknown(last'.req.id)
        \/ /\ last'.op = "delete" /\ SoftDeleted(last'.req.id)
        \/ /\ last'.op = "link"
           /\ \E id \in {last'.req.sourceId, last'.req.targetId} :
                 Unknown(id) \/ SoftDeleted(id))
          => /\ ~(last'.res.ok /\ last'.res.success)
             /\ UNCHANGED <<mem, tags, fts, links>>]_vars

-----------------------------------------------------------------------------
(* Validation: adds of a valid record, of an empty content, and of a memory
   type and an importance outside the four; soft deletes *)

NoContent == <<>>

ValidationAdds ==
    {[AddRequest(Alex, <<"default">>, "static", "normal") EXCEPT !.customId = <<"a">>],
     [AddRequest(NoContent, <<"default">>, "dynamic", "normal")
         EXCEPT !.customId = <<"e">>],
     [AddRequest(Alex, <<"default">>, "fact", "normal") EXCEPT !.customId = <<"f">>],
     [AddRequest(Sushi, <<"default">>, "dynamic", "urgent")
         EXCEPT !.customId = <<"f">>]}

InitValidation == Init /\ ~strictTx

NextValidation ==
    \/ Add(ValidationAdds, NoFailure, RowidOrder)
    \/ Delete(StoredIds, {FALSE})

SpecValidation == InitValidation /\ [][NextValidation]_vars

\* C15: add with empty content, or with a memory type or importance outside
\* the four allowed values, fails and stores no record, tag association or
\* index entry.
C15_InvalidAddFails ==
    [][(/\ last'.op = "add"
        /\ \/ last'.req.content = NoContent
           \/ last'.req.memoryType \notin MemoryTypes
           \/ last'.req.importance \notin Importances)
          => /\ ~last'.res.ok
             /\ UNCHANGED <<mem, tags, fts>>]_vars

-----------------------------------------------------------------------------
(* Retention: a record that is soft-deleted and restored at different times
   of day, a wait of just under the retention window, and vacuum *)

VacuumAdds ==
    {[AddRequest(Alex, <<"default">>, "dynamic", "normal") EXCEPT !.customId = <<"a">>],
     [AddRequest(Sushi, <<"default">>, "static", "normal") EXCEPT !.customId = <<"b">>]}

AlmostRetention == RetentionDays * TicksPerDay - 1

InitVacuum == Init /\ ~embeddingFn /\ hasFTS /\ ~strictTx

NextVacuum ==
    \/ Add(VacuumAdds, NoFailure, RowidOrder)
    \/ Delete(StoredIds, {FALSE})
    \/ Restore(StoredIds)
    \/ Tick({1})
    \/ Wait({AlmostRetention})
    \/ Vacuum

SpecVacuum == InitVacuum /\ [][NextVacuum]_vars

\* the records a vacuum step removed
Purged == DOMAIN mem \ DOMAIN mem'

\* C16: vacuum removes exactly the records that are soft-deleted and were
\* soft-deleted more than 7 days ago (every one deleted before the cutoff,
\* none deleted after it, none that is not deleted); until then restore(id)
\* brings a soft-deleted record back.
C16_VacuumRemovesExactlyTheOld ==
    [][/\ last'.op = "vacuum" =>
             LET cutoff == now - RetentionDays * TicksPerDay
             IN /\ Purged \subseteq {i \in DOMAIN mem : /\ mem[i].is_deleted
                                                        /\ mem[i].updated_at <= cutoff}
                /\ {i \in DOMAIN mem : /\ mem[i].is_deleted
                                       /\ mem[i].updated_at < cutoff} \subseteq Purged
       /\ (last'.op = "restore" /\ SoftDeleted(last'.req.id)) =>
             (last'.req.id \in DOMAIN mem' /\ ~mem'[last'.req.id].is_deleted)]_vars


\* C29: with FTS5, the lexical index holds exactly one entry per existing
\* record, under the record's row identifier and with its current content
\* and summary: no entry is stale, none is left of a purged record, none is
\* attached to another record
C29_IndexMatchesRecords ==
    hasFTS =>
        /\ DOMAIN fts = {mem[i].rowid : i \in DOMAIN mem}
        /\ \A i \in DOMAIN mem :
              mem[i].rowid \in DOMAIN fts =>
                  /\ fts[mem[i].rowid].content = mem[i].content
                  /\ fts[mem[i].rowid].summary = mem[i].summary

-----------------------------------------------------------------------------
(* Ranking: two static records of the same content and importance added at
   different times, and searches for their word with limit 1 and 10 *)

RankAdds ==
    {[AddRequest(Alex, <<"default">>, "static", "normal")
         EXCEPT !.customId = id, !.deduplicate = FALSE] : id \in {<<"a">>, <<"b">>}}

RankSearches ==
    {SearchRequest(Alex, <<"default">>, n, "none") : n \in {1, DefaultLimit}}

InitRank == Init /\ ~strictTx

NextRank ==
    \/ Add(RankAdds, NoFailure, RowidOrder)
    \/ Search(RankSearches, NoFailure, TieBreaks)
    \/ Tick({1})

SpecRank == InitRank /\ [][NextRank]_vars

\* C18: search returns at most limit records, in order of non-increasing
\* finalScore, and of two returned records with equal finalScore the more
\* recently updated comes first.
C18_RankedByScoreThenRecency ==
    (last.op = "search" /\ last.res.ok) =>
        /\ Len(last.res.results) <= last.req.limit
        /\ \A k \in 1..(Len(last.res.results) - 1) :
              /\ last.res.results[k].finalScore >= last.res.results[k + 1].finalScore
              /\ last.res.results[k].finalScore = last.res.results[k + 1].finalScore
                    => last.res.results[k].row.updated_at
                           >= last.res.results[k + 1].row.updated_at

-----------------------------------------------------------------------------
(* The empty query: records of different importance stored at different
   times, and searches without a query *)

RecentAdds ==
    {[AddRequest(Alex, <<"default">>, "static", r[2])
          EXCEPT !.customId = r[1], !.deduplicate = FALSE] :
        r \in {<<<<"a">>, "critical">>, <<<<"b">>, "critical">>,
               <<<<"c">>, "normal">>}}

NoQuery == <<>>
RecentSearches == {SearchRequest(NoQuery, <<"default">>, 1, "none")}

InitRecent == Init /\ ~embeddingFn /\ ~strictTx

NextRecent ==
    \/ Add(RecentAdds, NoFailure, RowidOrder)
    \/ Search(RecentSearches, NoFailure, RowidOrder)
    \/ Delete({<<"c">>}, {FALSE})
    \/ Tick({1})

SpecRecent == InitRecent /\ [][NextRecent]_vars

\* a successful search without a query
RecentSearch == last.op = "search" /\ last.req.q = NoQuery /\ last.res.ok

\* the non-deleted records in the scope of the last search
RecentScope ==
    {i \in DOMAIN mem : InScope(Engine, i, last.req.containerTags,
                                last.req.includeDeleted, last.req.memoryTypes)}

\* the number of records in scope updated later than record i
NewerThan(i) ==
    Cardinality({j \in RecentScope : mem[j].updated_at > mem[i].updated_at})

\* the number of other records in scope updated no earlier than record i
NotOlderThan(i) ==
    Cardinality({j \in RecentScope \ {i} : mem[j].updated_at >= mem[i].updated_at})

\* the score of a row with the neutral lexical score and no vector score
NeutralScore(row) ==
    FinalScore([row |-> row, ftsScore |-> 300, vectorScore |-> 0], now)

\* C19 as stated: search with an empty query returns the `limit` non-deleted
\* records in scope with the largest updated_at, whatever their importance,
\* type or access count
C19_EmptyQueryMostRecent ==
    RecentSearch =>
        /\ Len(last.res.results) = Min(last.req.limit, Cardinality(RecentScope))
        /\ Returned \subseteq RecentScope
        /\ \A i \in Returned : NewerThan(i) < last.req.limit

\* C19 amended: without an embedding function, search with an empty query takes
\* as candidates the 2 * limit non-deleted records in scope with the largest
\* updated_at, each given the same fixed neutral lexical score, and returns
\* the `limit` of them with the highest finalScore
C19_EmptyQueryBestOfRecent ==
    (RecentSearch /\ ~embeddingFn) =>
        /\ Len(last.res.results) = Min(last.req.limit, Cardinality(RecentScope))
        /\ Returned \subseteq RecentScope
        /\ \A k \in 1..Len(last.res.results) :
              /\ NewerThan(last.res.results[k].id) < 2 * last.req.limit
              /\ last.res.results[k].finalScore =
                     NeutralScore(last.res.results[k].row)
              /\ \A i \in RecentScope \ Returned :
                    NotOlderThan(i) < 2 * last.req.limit =>
                        NeutralScore(mem[i]) <= last.res.results[k].finalScore

\* a search without a query that returned an older record of higher
\* importance, while the oldest record of the scope, of the highest
\* importance of all, was no candidate
C19_Witness ==
    /\ RecentSearch /\ ~embeddingFn
    /\ Cardinality(RecentScope) = 3
    /\ \E i \in Returned : NewerThan(i) = 1
    /\ \E j \in RecentScope \ Returned :
          /\ NewerThan(j) = 2
          /\ \A i \in Returned : NeutralScore(mem[j]) >= NeutralScore(mem[i])

-----------------------------------------------------------------------------
(* The graph: two records linked and linked again in both directions, with
   different relations and strengths *)

LinkAdds ==
    {[AddRequest(c, <<"default">>, "static", "normal") EXCEPT !.customId = id] :
        <<id, c>> \in {<<<<"a">>, Alex>>, <<<<"b">>, Sushi>>}}

LinkIds == {<<"a">>, <<"b">>}
LinkRelations == {"related", "contradicts"}
LinkStrengths == {5, 10}

InitLink == Init /\ ~embeddingFn /\ hasFTS /\ ~strictTx

NextLink ==
    \/ Add(LinkAdds, NoFailure, RowidOrder)
    \/ Link(LinkIds, LinkIds, LinkRelations, LinkStrengths)
    \/ GetRelated(LinkIds, {"none", "related"}, {DefaultLimit}, RowidOrder)
    \/ Delete({<<"b">>}, BOOLEAN)

SpecLink == InitLink /\ [][NextLink]_vars

\* the edges of an ordered pair
EdgesOf(L, sourceId, targetId) ==
    {l \in L : l.source_id = sourceId /\ l.target_id = targetId}

\* the records getRelated yields for a record, under any relation filter
RelatedTo(e, id) ==
    [r \in {"none"} \cup LinkRelations |-> getRelated(e, id, r, DefaultLimit, 1)]

-----------------------------------------------------------------------------
(* Related records: one record linked to two others under different
   relations and strengths, one of which is soft-deleted and restored *)

RelatedAdds ==
    {[AddRequest(c, <<"default">>, "static", "normal") EXCEPT !.customId = id] :
        <<id, c>> \in {<<<<"a">>, Alex>>, <<<<"b">>, Sushi>>, <<<<"c">>, Hi>>}}

InitRelated == Init /\ ~embeddingFn /\ hasFTS /\ ~strictTx

NextRelated ==
    \/ Add(RelatedAdds, NoFailure, RowidOrder)
    \/ Link({<<"a">>}, {<<"b">>, <<"c">>}, {"related", "context"}, {8, 9})
    \/ GetRelated({<<"a">>}, {"none", "context"}, {1, DefaultLimit}, TieBreaks)
    \/ Delete({<<"b">>}, {FALSE})
    \/ Restore({<<"b">>})

SpecRelated == InitRelated /\ [][NextRelated]_vars

\* the edges the last getRelated call asks for: those from its record to a
\* record that is not soft-deleted, under its relation if it gives one
AskedEdges ==
    {l \in links : /\ l.source_id = last.req.memoryId
                   /\ ~mem[l.target_id].is_deleted
                   /\ (last.req.relation # "none" =>
                          l.relation = last.req.relation)}

\* the strength of the asked edge to a target
AskedStrength(targetId) ==
    (CHOOSE l \in AskedEdges : l.target_id = targetId).strength

\* C21: getRelated returns exactly the targets of the edges from the record
\* that are not soft-deleted and carry the relation asked for (if any), by
\* non-increasing strength, truncated to limit
C21_RelatedExactly ==
    last.op = "getRelated" =>
        LET rows == last.res.rows
            asked == {l.target_id : l \in AskedEdges}
            returned == {rows[k] : k \in 1..Len(rows)}
        IN /\ Len(rows) = Min(last.req.limit, Cardinality(asked))
           /\ Cardinality(returned) = Len(rows)
           /\ returned \subseteq asked
           /\ \A k \in 1..(Len(rows) - 1) :
                 AskedStrength(rows[k]) >= AskedStrength(rows[k + 1])
           /\ \A i \in asked \ returned, j \in returned :
                 AskedStrength(i) <= AskedStrength(j)

\* a -> b 'related' 0.9 and a -> c 'context' 0.8: getRelated(a, 'context')
\* returned c only
C21_Witness ==
    /\ last.op = "getRelated"
    /\ last.req.relation = "context" /\ last.req.limit = DefaultLimit
    /\ links = {[source_id |-> <<"a">>, target_id |-> <<"b">>,
                 relation |-> "related", strength |-> 9],
                [source_id |-> <<"a">>, target_id |-> <<"c">>,
                 relation |-> "context", strength |-> 8]}
    /\ ~mem[<<"b">>].is_deleted
    /\ last.res.rows = <<<<"c">>>>

-----------------------------------------------------------------------------
(* The profile: static records of every importance under one or two tags, a
   dynamic record, changes of importance and soft deletes *)

ProfileAdds ==
    {[AddRequest(Alex, tgs, "static", im) EXCEPT !.customId = <<"a">>] :
        tgs \in {<<"t1">>, <<"t1", "t2">>}, im \in {"low", "critical"}}
    \cup {[AddRequest(Sushi, <<"t1">>, "static", "high") EXCEPT !.customId = <<"b">>]}
    \cup {[AddRequest(Hi, <<"t1">>, "dynamic", "critical")
              EXCEPT !.customId = <<"c">>]}

ImportanceUpdate(importance) ==
    [has |-> {"importance"}, content |-> <<>>, summary |-> NullText,
     importance |-> importance, metadata |-> NoMeta, containerTags |-> <<>>]

ProfileTags == {NoTag, OneTag("t2"), TagArray(<<"t1", "t2">>)}

InitProfile == Init /\ ~embeddingFn /\ hasFTS /\ ~strictTx

NextProfile ==
    \/ Add(ProfileAdds, NoFailure, RowidOrder)
    \/ Update({<<"b">>}, {ImportanceUpdate("critical"), ImportanceUpdate("low")},
              NoFailure)
    \/ GetProfile(ProfileTags, {<<>>}, NoFailure, TieBreaks)
    \/ Delete({<<"a">>}, {FALSE})
    \/ Tick({1})

SpecProfile == InitProfile /\ [][NextProfile]_vars

\* C22: the static list of getProfile holds only non-deleted static records
\* of the requested tags and is non-increasing in importance weight
C22_StaticByImportance ==
    last.op = "getProfile" =>
        LET static == last.res.static
        IN /\ \A k \in 1..Len(static) :
                 /\ mem[static[k]].memory_type = "static"
                 /\ ~mem[static[k]].is_deleted
                 /\ TagsOf(Engine, static[k]) \cap CallScope # {}
           /\ \A k \in 1..(Len(static) - 1) :
                 ImportanceWeight(mem[static[k]].importance) >=
                     ImportanceWeight(mem[static[k + 1]].importance)

\* a profile whose static list puts a record in front of one updated later,
\* because it is the more important one, while a
\* dynamic record of the same tag is not in the list
C22_Witness ==
    /\ last.op = "getProfile"
    /\ \E k \in 1..(Len(last.res.static) - 1) :
          /\ ImportanceWeight(mem[last.res.static[k]].importance) >
                 ImportanceWeight(mem[last.res.static[k + 1]].importance)
          /\ mem[last.res.static[k]].updated_at <
                 mem[last.res.static[k + 1]].updated_at
    /\ \E i \in DOMAIN mem :
          /\ mem[i].memory_type = "dynamic" /\ ~mem[i].is_deleted
          /\ TagsOf(Engine, i) \cap CallScope # {}

-----------------------------------------------------------------------------
(* The type filter: records of three types, searched with an allow-list,
   with and without FTS5 and an embedding function *)

TypeAdds ==
    {[AddRequest(r[2], <<"default">>, r[3], "normal")
          EXCEPT !.customId = r[1], !.deduplicate = FALSE] :
        r \in {<<<<"a">>, Alex, "static">>, <<<<"b">>, AlexLondon, "dynamic">>,
               <<<<"c">>, Sushi, "episodic">>}}

TypeSearches ==
    {[SearchRequest(q, <<"default">>, DefaultLimit, "none") EXCEPT !.memoryTypes = ts] :
        q \in {Alex, Sushi, NoQuery}, ts \in {{"static"}, {"dynamic", "episodic"}}}

InitTypes == Init /\ ~strictTx

NextTypes ==
    \/ Add(TypeAdds, NoFailure, RowidOrder)
    \/ Search(TypeSearches, NoFailure, RowidOrder)

SpecTypes == InitTypes /\ [][NextTypes]_vars

\* C23: a search with a non-empty memoryTypes list returns only records
\* whose type is in the list
C23_OnlyAllowedTypes ==
    (last.op = "search" /\ last.req.memoryTypes # {}) =>
        \A k \in 1..Len(last.res.results) :
            last.res.results[k].row.memory_type \in last.req.memoryTypes

\* a search for 'sushi' among dynamic and episodic records, with an
\* embedding function, returned the episodic record that holds the word and
\* the dynamic one that does not (a vector candidate), and not the static
\* record, although it has an embedding too
C23_Witness ==
    /\ last.op = "search" /\ last.res.ok /\ embeddingFn
    /\ last.req.q = Sushi /\ last.req.memoryTypes = {"dynamic", "episodic"}
    /\ Returned = {<<"b">>, <<"c">>}
    /\ <<"a">> \in DOMAIN mem /\ ~mem[<<"a">>].is_deleted
    /\ mem[<<"a">>].embedding # NoVec

-----------------------------------------------------------------------------
(* Conversations: two conversations saved and saved again, with a fact
   extractor that finds nothing, finds facts, finds a fact that cannot be
   stored, or fails *)

Message(role, content) == [role |-> role, content |-> content]

ConversationRequest(conversationId, messages, extractFacts) ==
    [conversationId |-> conversationId, messages |-> messages,
     containerTags |-> <<"default">>, extractFacts |-> extractFacts]

ConversationRequests ==
    {ConversationRequest(c, ms, x) :
        c \in {"c1", "c2"},
        ms \in {<<Message("user", Alex)>>,
                <<Message("user", Sushi), Message("assistant", Hi)>>},
        x \in BOOLEAN}

Fact(content, type) == [content |-> content, type |-> type, importance |-> "normal"]

\* what the extractor does
Throws == [throws |-> TRUE, facts |-> <<>>]
Returns(facts) == [throws |-> FALSE, facts |-> facts]

Extractions ==
    {Throws, Returns(<<>>), Returns(<<Fact(AlexLondon, "static")>>),
     Returns(<<Fact(AlexLondon, "static"), Fact(Hi, "preference")>>)}

ConversationSearches ==
    {SearchRequest(q, <<"default">>, DefaultLimit, "none") : q \in {Alex, Sushi}}

InitConversation ==
    /\ Constructed /\ onFactsExtracted = TRUE /\ ~embeddingFn /\ ~strictTx
    /\ embeddingCacheMaxSize = MinCacheSize

NextConversation ==
    \/ AddConversation(ConversationRequests, Extractions, NoFailure, RowidOrder)
    \/ Search(ConversationSearches, NoFailure, RowidOrder)

SpecConversation == InitConversation /\ [][NextConversation]_vars

\* the last call was an addConversation with a transcript
SavedTranscript ==
    /\ last.op = "addConversation"
    /\ Trim(conversationText(last.req.messages)) # <<>>

\* C24: every addConversation call with a non-empty transcript, a call that
\* reuses an earlier conversation_id included, appends a conversation row and
\* results in an episodic memory that holds the transcript under the tags of
\* the call
C24_ConversationAppended ==
    SavedTranscript =>
        /\ last.res.ok
        /\ \E k \in 1..Len(conversations) :
              /\ conversations[k].id = last.res.id
              /\ conversations[k].conversation_id = last.req.conversationId
              /\ conversations[k].messages = last.req.messages
        /\ \E i \in DOMAIN mem :
              /\ mem[i].memory_type = "episodic" /\ ~mem[i].is_deleted
              /\ mem[i].content = conversationText(last.req.messages)
              /\ Range(last.req.containerTags) \subseteq TagsOf(Engine, i)


\* the extractor was called and threw, or returned a fact that cannot be
\* stored
ExtractionFails(req) ==
    /\ req.extractFacts /\ onFactsExtracted
    /\ \/ req.extracted.throws
       \/ \E k \in 1..Len(req.extracted.facts) :
             req.extracted.facts[k].type \notin MemoryTypes

\* C25: if fact extraction fails during addConversation (the extractor, or
\* the storing of an extracted fact), the call still succeeds, the
\* conversation row and the episodic memory of the transcript are stored,
\* and the call reports zero extracted facts
C25_FailedExtractionIsZeroFacts ==
    [][(/\ last'.op = "addConversation"
        /\ ConvId(last'.req.conversationId) \notin DOMAIN mem
        /\ ExtractionFails(last'.req))
       => /\ last'.res.ok
          /\ Len(conversations') = Len(conversations) + 1
          /\ ConvId(last'.req.conversationId) \in DOMAIN mem'
          /\ mem'[ConvId(last'.req.conversationId)].content =
                 conversationText(last'.req.messages)
          /\ last'.res.extractedFacts = 0]_vars

-----------------------------------------------------------------------------
(* Ids: adds under a caller's id and under fresh ids, a conversation, and
   soft and hard deletes of stored records *)

IdAdds ==
    {[AddRequest(c, <<"default">>, "static", "normal") EXCEPT !.customId = <<"a">>] :
        c \in {Alex, Sushi}}
    \cup {AddRequest(Hi, <<"default">>, "static", "normal")}

IdConversations == {ConversationRequest("c1", <<Message("user", Alex)>>, FALSE)}

InitIds == Init /\ ~embeddingFn /\ ~strictTx

NextIds ==
    \/ Add(IdAdds, NoFailure, RowidOrder)
    \/ AddConversation(IdConversations, {Throws}, NoFailure, RowidOrder)
    \/ Delete(StoredIds, BOOLEAN)

SpecIds == InitIds /\ [][NextIds]_vars

\* C26: ids are stable and never reused: an add or addConversation never
\* changes the record an id already stands for, and the id of a record that
\* was just hard-deleted (every delete here is of a stored record) does not
\* come back with the next add or addConversation
C26_IdsNeverReused ==
    [][last'.op \in {"add", "addConversation"} =>
          /\ \A i \in DOMAIN mem : i \in DOMAIN mem' /\ mem'[i] = mem[i]
          /\ (last.op = "delete" /\ last.req.hard) =>
                 last.req.id \notin DOMAIN mem']_vars

-----------------------------------------------------------------------------
(* A closed engine: a record is added and worked on, the engine is closed,
   and every operation is called on it *)

ClosedAdds ==
    {[AddRequest(Alex, <<"default">>, "dynamic", "normal") EXCEPT !.customId = <<"a">>]}

ClosedSearches == {SearchRequest(Alex, <<"default">>, DefaultLimit, "none")}

InitClosed == Init /\ ~strictTx

NextClosed ==
    \/ Add(ClosedAdds, NoFailure, RowidOrder)
    \/ Close
    \/ Update({<<"a">>}, {ContentUpdate(AlexLondon)}, NoFailure)
    \/ Delete({<<"a">>}, BOOLEAN)
    \/ Restore({<<"a">>})
    \/ Search(ClosedSearches, NoFailure, RowidOrder)
    \/ GetProfile({NoTag}, {<<>>}, NoFailure, RowidOrder)
    \/ Link({<<"a">>}, {<<"a">>}, {"related"}, {10})
    \/ GetRelated({<<"a">>}, {"none"}, {DefaultLimit}, RowidOrder)
    \/ Cleanup({1}, {FALSE})
    \/ Vacuum
    \/ ExportAll({<<>>}, RowidOrder)
    \/ GetStats({<<"default">>})

SpecClosed == InitClosed /\ [][NextClosed]_vars

PublicOperations ==
    {"add", "update", "delete", "restore", "search", "getProfile", "link",
     "getRelated", "cleanup", "vacuum", "exportAll", "getStats"}

\* C27: after close(), every public operation called on the engine fails
\* with an error (close makes itself the last call, so an operation that is
\* the last call of a closed engine was called after the close)
C27_ClosedEngineFails ==
    (~open /\ last.op \in PublicOperations) => ~last.res.ok

\* a search on a closed engine that holds a record the query matches, and
\* that failed
C27_Witness ==
    /\ ~open /\ last.op = "search" /\ ~last.res.ok
    /\ \E i \in DOMAIN mem :
          ~mem[i].is_deleted /\ WordsOf(last.req.q) \subseteq WordsOf(mem[i].content)

-----------------------------------------------------------------------------
(* Restart: records, tags, an edge and a soft delete, then the engine is
   closed and a new one opened on the same database, with or without an
   embedding function *)

ReopenAdds ==
    {[AddRequest(Alex, <<"t1", "t2">>, "static", "normal") EXCEPT !.customId = <<"a">>],
     [AddRequest(Sushi, <<"default">>, "dynamic", "high") EXCEPT !.customId = <<"b">>]}

ReopenSearches == {SearchRequest(q, <<>>, DefaultLimit, "none") : q \in {Alex, Sushi}}

InitReopen == Init /\ hasFTS /\ ~strictTx

NextReopen ==
    \/ Add(ReopenAdds, NoFailure, RowidOrder)
    \/ Link({<<"a">>}, {<<"b">>}, {"related"}, {10})
    \/ Delete({<<"b">>}, {FALSE})
    \/ Search(ReopenSearches, NoFailure, RowidOrder)
    \/ Close
    \/ Open(BOOLEAN)

SpecReopen == InitReopen /\ [][NextReopen]_vars

\* the ids a search of the engine returns
Found(req) ==
    LET Ids_(rows) == {rows[k].id : k \in 1..Len(rows)}
    IN Ids_(search(Engine, req, {}, 1, now).res.results)

\* C28: opening a new engine on the database of a closed one preserves every
\* record with its content, tags, edges and soft-delete flag, the embedding
\* cache starts empty, and a search on the new engine (the first call on
\* it) returns the records stored before the close
C28_ReopenPreserves ==
    [][/\ last'.op = "new" =>
             /\ mem' = mem /\ tags' = tags /\ links' = links
             /\ conversations' = conversations
             /\ cache' = <<>>
       /\ last.op = "new" =>
             \A req \in ReopenSearches, i \in DOMAIN mem :
                 (~mem[i].is_deleted
                  /\ WordsOf(req.q) \subseteq WordsOf(mem[i].content))
                     => i \in Found(req)]_vars

\* a new engine on a database that holds two records, one of them
\* soft-deleted, three tags and an edge
C28_Witness ==
    /\ last.op = "new" /\ open /\ cache = <<>>
    /\ DOMAIN mem = {<<"a">>, <<"b">>}
    /\ mem[<<"b">>].is_deleted /\ ~mem[<<"a">>].is_deleted
    /\ Cardinality(tags) = 3
    /\ links # {}

-----------------------------------------------------------------------------
(* Index writes that fail: a record is soft-deleted and purged by vacuum,
   its index entry stays, and the insert of the next record's entry fails on
   it; then the records are searched *)

IndexSearches ==
    {SearchRequest(q, <<"default">>, DefaultLimit, "none") : q \in {Alex, Sushi}}

InitIndex == Init /\ ~embeddingFn /\ hasFTS /\ ~strictTx

NextIndex ==
    \/ Add(VacuumAdds, NoFailure, RowidOrder)
    \/ Delete(StoredIds, {FALSE})
    \/ Wait({AlmostRetention + 1})
    \/ Vacuum
    \/ Search(IndexSearches, NoFailure, RowidOrder)

SpecIndex == InitIndex /\ [][NextIndex]_vars

\* the record's index entry, as add would have written it, is not there
Unindexed(i) ==
    \/ mem[i].rowid \notin DOMAIN fts
    \/ fts[mem[i].rowid].content # mem[i].content

\* the add just made wrote the record row and failed to write its index entry
IndexWriteFailed ==
    /\ last.op = "add" /\ last.res.ok /\ ~last.res.merged
    /\ last.res.id \in DOMAIN mem
    /\ Unindexed(last.res.id)

\* a search for the content of the record just added, under its tags
SearchForAdded ==
    SearchRequest(last.req.content, last.req.containerTags, DefaultLimit, "none")

\* C30: when the index write of an add fails after the record row was
\* written, the add succeeds with the record and its tags stored, and a
\* later search for the record's words returns it
C30_UnindexedStillFound ==
    IndexWriteFailed =>
        /\ mem[last.res.id].content = last.req.content
        /\ TagsOf(Engine, last.res.id) = Range(last.req.containerTags)
        /\ last.res.id \in Found(SearchForAdded)

-----------------------------------------------------------------------------
(* What a merge leaves alone: adds of two similar contents with and without
   a summary, under one tag or two, as facts of two types; edges between the
   records and searches that count their accesses *)

FrameAdds ==
    {[AddRequest(Alex, <<"t1">>, "static", "normal") EXCEPT !.summary = Summary],
     AddRequest(Alex, <<"t2", "t1">>, "dynamic", "normal"),
     [AddRequest(AlexLondon, <<"t2", "t1">>, "dynamic", "normal")
         EXCEPT !.summary = Summary, !.source = "agent"],
     [AddRequest(Sushi, <<"t1">>, "dynamic", "normal") EXCEPT !.customId = <<"b">>]}

FrameSearches == {SearchRequest(Alex, <<"t1">>, DefaultLimit, "none")}

InitFrame == Init /\ embeddingFn /\ hasFTS /\ ~strictTx

NextFrame ==
    \/ Add(FrameAdds, NoFailure, RowidOrder)
    \/ Link(StoredIds, {<<"b">>}, {"related"}, {10})
    \/ Link({<<"b">>}, StoredIds, {"related"}, {10})
    \/ Search(FrameSearches, NoFailure, RowidOrder)

SpecFrame == InitFrame /\ [][NextFrame]_vars

\* the columns and rows of the record id that a merge is to leave alone
Untouched(id) ==
    /\ TagsOf(Engine, id)' = TagsOf(Engine, id)
    /\ mem'[id].memory_type = mem[id].memory_type
    /\ mem'[id].source = mem[id].source
    /\ mem'[id].embedding = mem[id].embedding
    /\ mem'[id].access_count = mem[id].access_count
    /\ links' = links

\* C33 (as stated): an add that merges changes only the content, metadata,
\* importance and updated_at of the existing record: its tags, memory type,
\* source, summary, embedding, access count and edges stay as they were.
C33_MergeKeepsTheRest ==
    [][MergingAdd =>
          \E id \in DOMAIN mem :
              /\ id = last'.res.id
              /\ Untouched(id)
              /\ mem'[id].summary = mem[id].summary]_vars

-----------------------------------------------------------------------------
(* Which record an add merges into: similar contents are added under one
   tag, another tag and both, first without an embedding function and, once
   the engine was closed and opened again, with one; records are
   soft-deleted, time passes *)

TargetAdds ==
    {[AddRequest(Alex, <<"t1">>, "dynamic", "normal") EXCEPT !.customId = <<"a">>],
     [AddRequest(AlexLondon, <<"t2">>, "dynamic", "normal") EXCEPT !.customId = <<"b">>],
     [AddRequest(Alex, <<"t1", "t2">>, "dynamic", "normal") EXCEPT !.customId = <<"c">>]}

InitTarget == Init /\ ~hasFTS /\ ~strictTx

NextTarget ==
    \/ Add(TargetAdds, NoFailure, TieBreaks)
    \/ Delete({<<"c">>}, {FALSE})
    \/ Tick({1})
    \/ (~embeddingFn /\ Close)
    \/ Open({TRUE})

SpecTarget == InitTarget /\ [][NextTarget]_vars

\* the record j may be merged into by the add the step makes
Qualifies(j) ==
    /\ ~mem[j].is_deleted
    /\ mem[j].embedding # NoVec
    /\ TagsOf(Engine, j) \cap Range(last'.req.containerTags) # {}
    /\ cosineSimilarity(Embed(last'.req.content), mem[j].embedding)
           >= SIMILARITY_MERGE_THRESHOLD

\* the record j is out of the reach of the add the step makes
OutOfReach(j) ==
    \/ mem[j].is_deleted
    \/ TagsOf(Engine, j) \cap Range(last'.req.containerTags) = {}

\* the number of qualifying records updated after the record j
NewerQualifying(j) ==
    Cardinality({k \in DOMAIN mem : Qualifies(k) /\ mem[k].updated_at > mem[j].updated_at})

-----------------------------------------------------------------------------
(* Referential integrity: two records under one tag and two, edges between
   them and onto themselves, updates of the tags, soft and hard deletes of
   the first record, and vacuums after the retention time *)

IntegrityAdds ==
    {[AddRequest(Alex, <<"t1">>, "dynamic", "normal") EXCEPT !.customId = <<"a">>],
     [AddRequest(Sushi, <<"t1", "t2">>, "static", "normal") EXCEPT !.customId = <<"b">>]}

IntegrityIds == {<<"a">>, <<"b">>}

InitIntegrity == Init /\ ~embeddingFn /\ hasFTS /\ ~strictTx

NextIntegrity ==
    \/ Add(IntegrityAdds, NoFailure, RowidOrder)
    \/ Link(IntegrityIds, IntegrityIds, {"related"}, {10})
    \/ Update(IntegrityIds, {TagsUpdate(<<"t2">>)}, NoFailure)
    \/ Delete({<<"a">>}, BOOLEAN)
    \/ Wait({AlmostRetention + 1})
    \/ Vacuum

SpecIntegrity == InitIntegrity /\ [][NextIntegrity]_vars

\* every tag association and every edge is of records that are stored
Referential ==
    /\ \A p \in tags : p[1] \in DOMAIN mem
    /\ \A l \in links : l.source_id \in DOMAIN mem /\ l.target_id \in DOMAIN mem

\* the step removed the rows of the records in gone, and with them their tag
\* associations and the edges they are an end of, and nothing else
Cascaded(gone) ==
    /\ DOMAIN mem' = DOMAIN mem \ gone
    /\ tags' = {p \in tags : p[1] \notin gone}
    /\ links' = {l \in links : l.source_id \notin gone /\ l.target_id \notin gone}

\* C36: tag associations and edges always refer to stored records; a soft
\* delete leaves the tag associations and the edges as they are; a hard
\* delete and a vacuum remove, with each record they remove, its tag
\* associations and every edge it is the source or the target of.
C36_ReferentialIntegrity ==
    [][/\ Referential'
       /\ (last'.op = "delete" /\ ~last'.req.hard) =>
              /\ DOMAIN mem' = DOMAIN mem /\ tags' = tags /\ links' = links
       /\ (last'.op = "delete" /\ last'.req.hard) =>
              /\ last'.req.id \notin DOMAIN mem'
              /\ Cascaded({last'.req.id} \cap DOMAIN mem)
       /\ (last'.op = "vacuum") =>
              Cascaded(DOMAIN mem \ DOMAIN mem')]_vars

\* a record was hard-deleted, and of the tag associations and edges there
\* are left those of the other record only
C36_Witness ==
    /\ last.op = "delete" /\ last.req.hard /\ last.req.id = <<"a">>
    /\ DOMAIN mem = {<<"b">>}
    /\ tags = {<<<<"b">>, "t1">>, <<<<"b">>, "t2">>}
    /\ Cardinality(links) = 1

-----------------------------------------------------------------------------
(* A provider that fails: with an embedding function that throws on some
   texts, records are added with and without deduplication, their contents
   are updated, and they are searched *)

FailingAdds ==
    {[AddRequest(Alex, <<"default">>, "dynamic", "normal") EXCEPT !.customId = <<"a">>],
     [AddRequest(Sushi, <<"default">>, "static", "normal")
         EXCEPT !.customId = <<"b">>, !.deduplicate = FALSE]}

FailingSearches ==
    {SearchRequest(q, <<"default">>, DefaultLimit, "none") : q \in {Alex, Sushi}}

\* the texts the provider throws on, call by call
Failures == {{}, {Alex}, {Sushi, AlexLondon}}

InitFailing == Init /\ embeddingFn /\ hasFTS /\ ~strictTx

NextFailing ==
    \/ Add(FailingAdds, Failures, RowidOrder)
    \/ Update({<<"a">>}, {ContentUpdate(AlexLondon), ContentUpdate(Alex)}, Failures)
    \/ Search(FailingSearches, Failures, RowidOrder)

SpecFailing == InitFailing /\ [][NextFailing]_vars

\* the step is a call that the failure of the provider has ended
EmbeddingFailed ==
    /\ last'.op \in {"add", "update", "search"}
    /\ ~last'.res.ok
    /\ last'.res.error = "embedding failed"

\* C39: when the embedding function fails during an add that is not
\* chunked, an update or a search, the call fails and leaves the records,
\* the tag associations, the edges, the index, the access counts and the
\* embedding cache as they were.
C39_FailedEmbeddingChangesNothing ==
    [][EmbeddingFailed =>
          /\ mem' = mem /\ tags' = tags /\ links' = links /\ fts' = fts
          /\ cache' = cache]_vars

\* a search has failed on a query that a stored record matches, with
\* another text in the cache
C39_Witness ==
    /\ last.op = "search" /\ ~last.res.ok
    /\ last.res.error = "embedding failed"
    /\ \E i \in DOMAIN mem : mem[i].content = last.req.q /\ mem[i].access_count = 0
    /\ cache # <<>>

-----------------------------------------------------------------------------
(* Export and import: records under one tag, under a tag with a comma and
   under none, two of them of similar contents; soft deletes; exports of
   everything and of one tag; and the import of an export into a new engine
   with the same options *)

ExportAdds ==
    {[AddRequest(Alex, <<"t1">>, "static", "high")
         EXCEPT !.customId = <<"a">>, !.summary = Summary],
     [AddRequest(AlexLondon, <<"t1">>, "dynamic", "normal")
         EXCEPT !.customId = <<"b">>, !.deduplicate = FALSE]}
    \cup {[AddRequest(Sushi, tg, "dynamic", "normal") EXCEPT !.customId = <<"c">>] :
              tg \in {<<CommaTag>>, <<>>}}

ExportScopes == {<<>>, <<"t1">>}

\* a new engine on a new database, in the same process
NewEngine ==
    [Engine EXCEPT !.mem = <<>>, !.tags = {}, !.links = {}, !.fts = <<>>,
                   !.conversations = <<>>, !.cache = <<>>]

\* target.importBulk(engine.exportAll(tags)) for a new engine target, which
\* is the engine from then on
Migrate(TagLists, Ties) ==
    \E tagSeq \in TagLists, tb \in Ties :
        LET Into(exported) ==
                Commit("migrate", [containerTags |-> tagSeq, exported |-> exported],
                       importBulk(NewEngine, exported, {}, tb, now))
        IN open /\ Into(exportAll(Engine, tagSeq, tb))

InitExport == Init /\ hasFTS /\ ~strictTx

NextExport ==
    \/ Add(ExportAdds, NoFailure, RowidOrder)
    \/ Delete(StoredIds, {FALSE})
    \/ ExportAll(ExportScopes, RowidOrder)
    \/ Migrate(ExportScopes, RowidOrder)

SpecExport == InitExport /\ [][NextExport]_vars

\* the records an export of the scope tagSeq is to return
ToExport(tagSeq) ==
    {i \in DOMAIN mem : /\ ~mem[i].is_deleted
                        /\ (Len(tagSeq) > 0 =>
                               TagsOf(Engine, i) \cap Range(tagSeq) # {})}

\* the exported record x is stored as it was exported
Reimported(x) ==
    /\ x.id \in DOMAIN mem
    /\ mem[x.id].content = x.row.content
    /\ mem[x.id].summary = x.row.summary
    /\ mem[x.id].memory_type = x.row.memory_type
    /\ mem[x.id].importance = x.row.importance
    /\ TagsOf(Engine, x.id) = x.tags

\* C40: exportAll returns the records of the scope that are not
\* soft-deleted, each once and with all of its tags, and importBulk of an
\* export into an empty engine stores records of the same ids, contents,
\* summaries, types, importances and tags.
C40_ExportImportRoundTrip ==
    /\ (last.op = "exportAll" /\ last.res.ok) =>
           LET rows == last.res.rows
           IN /\ {rows[k].id : k \in 1..Len(rows)} = ToExport(last.req.containerTags)
              /\ Len(rows) = Cardinality(ToExport(last.req.containerTags))
              /\ \A k \in 1..Len(rows) : rows[k].tags = TagsOf(Engine, rows[k].id)
    /\ (last.op = "migrate") =>
           LET rows == last.req.exported
           IN /\ DOMAIN mem = {rows[k].id : k \in 1..Len(rows)}
              /\ \A k \in 1..Len(rows) : Reimported(rows[k])

-----------------------------------------------------------------------------
(* The embedding cache: with a cache of one entry or two and a provider
   that may throw, three texts are added and searched for *)

CachedTexts == {Alex, Sushi, Hi}

CacheAdds ==
    {[AddRequest(Alex, <<"default">>, "dynamic", "normal")
         EXCEPT !.customId = <<"a">>, !.deduplicate = FALSE]}

CacheSearches ==
    {SearchRequest(q, <<"default">>, DefaultLimit, "none") : q \in CachedTexts}

\* the provider works, or throws whatever the text
Outage == {{}, CachedTexts}

InitCache ==
    /\ Constructed /\ onFactsExtracted = FALSE
    /\ embeddingCacheMaxSize \in MinCacheSize..MaxCacheSize
    /\ embeddingFn /\ ~hasFTS /\ ~strictTx

NextCache ==
    \/ Add(CacheAdds, Outage, RowidOrder)
    \/ Search(CacheSearches, Outage, RowidOrder)

SpecCache == InitCache /\ [][NextCache]_vars

\* C38: a lookup of a text that is not in a full cache evicts one entry, the
\* one inserted earliest, and inserts the text as the newest; a lookup of a
\* text that is in the cache succeeds without the provider (also when the
\* provider throws) and leaves the order of the entries as it is.
C38_OldestEvictedHitsKeepOrder ==
    [][(last'.op = "search") =>
          IF last'.req.q \in Range(cache)
          THEN last'.res.ok /\ cache' = cache
          ELSE last'.res.ok =>
                   cache' = Append(IF Len(cache) >= embeddingCacheMaxSize
                                   THEN Tail(cache) ELSE cache,
                                   last'.req.q)]_vars

\* the text of a stored record is no longer in a full cache of two entries:
\* it was evicted, and the search just made has inserted the newest entry
C38_Witness ==
    /\ last.op = "search" /\ last.res.ok
    /\ embeddingCacheMaxSize = 2 /\ Len(cache) = 2
    /\ cache[2] = last.req.q
    /\ \E i \in DOMAIN mem : mem[i].embedding # NoVec /\ mem[i].content \notin Range(cache)

-----------------------------------------------------------------------------
(* The size of the embedding cache *)

\* adds without deduplication, each of which looks its content up once;
\* they ask for the same id, so that one record at most is stored
LookupAdds ==
    {[AddRequest(content, <<"default">>, "dynamic", "normal")
         EXCEPT !.customId = <<"a">>, !.deduplicate = FALSE] :
       content \in CachedTexts}

InitLookups ==
    /\ Constructed /\ onFactsExtracted = FALSE
    /\ embeddingCacheMaxSize \in MinCacheSize..MaxCacheSize
    /\ embeddingFn /\ ~hasFTS /\ ~strictTx

NextLookups ==
    \/ StartAdd(LookupAdds)
    \/ Resume(Outage, RowidOrder)

SpecLookups == InitLookups /\ [][NextLookups]_vars

\* C37: after any sequence of embedding lookups, those that are suspended
\* at the provider at the same time included (for the same text or for
\* different ones), the embedding cache holds at most embeddingCacheMaxSize
\* entries.
C37_CacheWithinMaximum == Len(cache) <= embeddingCacheMaxSize

\* a lookup was started while an earlier one of the same text was at the
\* provider and has come back before it, and the cache is full
C37_Witness ==
    /\ Len(cache) = embeddingCacheMaxSize
    /\ \E j, k \in 1..Len(pending) :
           /\ j < k
           /\ pending[j].pc = "provider"
           /\ pending[k].pc = "insert" /\ pending[k].next = "insert"
           /\ pending[j].req.content = pending[k].req.content
-----------------------------------------------------------------------------
(* Two adds of one content at the same time *)

\* adds of the same content under the same tag, with deduplication
TwinAdds ==
    {AddRequest(Alex, <<"t1">>, "dynamic", importance) :
       importance \in {"normal", "high"}}

InitTwins == Init /\ embeddingFn /\ ~hasFTS /\ ~strictTx

NextTwins ==
    \/ StartAdd(TwinAdds)
    \/ Resume(NoFailure, RowidOrder)
    \/ Tick({1})

SpecTwins == InitTwins /\ [][NextTwins]_vars

\* C31: with deduplication, adds of the same content under the same tag
\* that are suspended at the same time leave exactly one record of that
\* content once they have returned.
C31_InterleavedAddsLeaveOne ==
    (pending = <<>> /\ last.op = "add")
        => Cardinality({i \in DOMAIN mem : mem[i].content = Alex}) = 1
-----------------------------------------------------------------------------
(* An update that is suspended while the record changes *)

\* the record a, and an add of a similar content that merges into it
StaleAdds ==
    {[AddRequest(Alex, <<"t1">>, "dynamic", "normal")
         EXCEPT !.customId = <<"a">>, !.deduplicate = FALSE],
     [AddRequest(AlexLondon, <<"t1">>, "dynamic", "high")
         EXCEPT !.customId = <<"b">>]}

\* the update that is suspended, and the ones that run meanwhile
SuspendedUpdates == {ContentUpdate(Sushi)}
OtherUpdates == {ImportanceUpdate("high"), TagsUpdate(<<"t2">>)}

InitStale == Init /\ embeddingFn /\ ~hasFTS /\ ~strictTx

NextStale ==
    \/ Add(StaleAdds, NoFailure, RowidOrder)
    \/ StartUpdate({<<"a">>}, SuspendedUpdates)
    \/ Resume(NoFailure, RowidOrder)
    \/ Update({<<"a">>}, OtherUpdates, NoFailure)
    \/ Delete({<<"a">>}, {FALSE})

SpecStale == InitStale /\ [][NextStale]_vars

\* the step is the end of the k-th suspended call, an update that has its
\* embedding and writes
ResumedWrite(k) ==
    /\ pending[k].pc = "write"
    /\ pending' = Without(pending, k)
    /\ last'.op = "update" /\ last'.req = pending[k].req

\* the record changed between the moment the call read it and now
ChangedMeanwhile(task) ==
    task.id \in DOMAIN mem /\ mem[task.id] # task.existing

\* C32: when an update of the content that was suspended at the embedding
\* call goes on after another operation on the same id has completed (an
\* update of the importance or of the tags, a delete, a merge), it leaves
\* the fields it was not given as that operation wrote them, and writes
\* nothing to a record that has been soft-deleted meanwhile.
C32_ResumedUpdateKeepsLaterWrites ==
    [][\A k \in 1..Len(pending) :
          \A id \in DOMAIN mem :
              (ResumedWrite(k) /\ id = pending[k].id /\ ChangedMeanwhile(pending[k]))
                  => /\ mem'[id].importance = mem[id].importance
                     /\ mem'[id].summary = mem[id].summary
                     /\ mem'[id].metadata = mem[id].metadata
                     /\ TagsOf(Engine, id) = {p[2] : p \in {q \in tags' : q[1] = id}}
                     /\ (mem[id].is_deleted => mem'[id] = mem[id])]_vars
=============================================================================
